---------------------------- MODULE Spec2Model ----------------------------
(***************************************************************************)
(* Model of the event aggregation pipeline of events-eth                   *)
(* (src/src/services/eventService.js): the date parsers, the five source   *)
(* adapters, the aggregator fetchEvents and the time-window filter.        *)
(*                                                                         *)
(* JavaScript strings are sequences of one-character strings, so that the  *)
(* regular expressions, parseInt and the truthiness tests of the source    *)
(* are computed on the characters, as the engine computes them.            *)
(***************************************************************************)
EXTENDS Integers, Sequences, FiniteSets, TLC

VARIABLES
    aggPc,      \* fetchEvents: "idle", "awaiting" (at Promise.all), "resolved", "rejected"
    aggResult,  \* the list fetchEvents resolved to
    task,       \* the five adapter calls: where each is and what it settled to
    inverted,   \* history: some adapter settled after one that follows it in source order
    call,       \* the last direct call of a function of the module: its name and arguments
    ret,        \* what that call returned
    storage     \* localStorage: the item 'ethEventRegistrations'

aggVars == <<aggPc, aggResult, task, inverted>>

callVars == <<call, ret, storage>>

vars == <<aggPc, aggResult, task, inverted, call, ret, storage>>

(***************************************************************************)
(* Characters and JavaScript primitives                                    *)
(***************************************************************************)

DigitChars == <<"0", "1", "2", "3", "4", "5", "6", "7", "8", "9">>

IsDigit(c) == \E i \in 1..10 : DigitChars[i] = c

DigitVal(c) == (CHOOSE i \in 1..10 : DigitChars[i] = c) - 1

LowerChars == <<"a", "b", "c", "d", "e", "f", "g", "h", "i", "j", "k", "l", "m",
                "n", "o", "p", "q", "r", "s", "t", "u", "v", "w", "x", "y", "z">>

UpperChars == <<"A", "B", "C", "D", "E", "F", "G", "H", "I", "J", "K", "L", "M",
                "N", "O", "P", "Q", "R", "S", "T", "U", "V", "W", "X", "Y", "Z">>

IsLower(c) == \E i \in 1..26 : LowerChars[i] = c

IsUpper(c) == \E i \in 1..26 : UpperChars[i] = c

\* the letters outside a-z that the texts of the model use
LowerAccents == <<"é", "î", "ü", "ä">>

UpperAccents == <<"É", "Î", "Ü", "Ä">>

\* String.prototype.toLowerCase, one character
ToLowerChar(c) ==
    IF IsUpper(c) THEN LowerChars[CHOOSE i \in 1..26 : UpperChars[i] = c]
    ELSE IF \E i \in 1..4 : UpperAccents[i] = c
    THEN LowerAccents[CHOOSE i \in 1..4 : UpperAccents[i] = c]
    ELSE c

\* String.prototype.toLowerCase
ToLowerCase(s) == [i \in 1..Len(s) |-> ToLowerChar(s[i])]

\* the regular expression class \w
IsWord(c) == IsDigit(c) \/ IsLower(c) \/ IsUpper(c) \/ c = "_"

\* the regular expression class \s (the model's strings use blank and newline)
IsSpace(c) == c \in {" ", "\n", "\t"}

\* does character c belong to class cls; ci is the regular expression's i flag
InClass(c, cls, ci) ==
    CASE cls = "\\d" -> IsDigit(c)
      [] cls = "\\w" -> IsWord(c)
      [] cls = "\\s" -> IsSpace(c)
      [] cls = "[^/]" -> c # "/"
      [] cls = "[\\d.]" -> IsDigit(c) \/ c = "."
      [] OTHER -> IF ci THEN ToLowerChar(c) = ToLowerChar(cls) ELSE c = cls

(***************************************************************************)
(* A backtracking matcher for the regular expressions of the source.  A    *)
(* pattern is a sequence of items:                                         *)
(*   [k |-> "lit", s]                 the literal text s                   *)
(*   [k |-> "c", cls, min, max, cap]  a quantified class, greedy; cap > 0  *)
(*                                    makes it capture group number cap    *)
(*   [k |-> "opt", sub]               (?:sub)? , greedy                    *)
(*   [k |-> "alt", subs, cap]         (sub1|sub2|...)                      *)
(*   [k |-> "end"]                    $                                    *)
(* The matcher carries the set of all partial matches through the items;  *)
(* each partial match records the choices it made, and of the complete     *)
(* matches the result is the one the ECMAScript semantics finds first: the *)
(* leftmost start, then at each choice the longer repetition, the present  *)
(* option before the absent one, the alternatives left to right.           *)
(*                                                                         *)
(* Throughout the module a value that is used more than once is bound by   *)
(* Only(x \in {e} ...), a choice from a one-element set: the value is then  *)
(* computed once, where a LET definition is computed at every use.         *)
(***************************************************************************)

\* the element of a one-element set
Only(S) == CHOOSE x \in S : TRUE

Inf == 1000

Cls(cls, min, max) == [k |-> "c", cls |-> cls, min |-> min, max |-> max, cap |-> 0]

Cap(n, cls, min, max) == [k |-> "c", cls |-> cls, min |-> min, max |-> max, cap |-> n]

\* the literal text s as a pattern
LitSeq(s) == << [k |-> "lit", s |-> s] >>

Lit(c) == [k |-> "lit", s |-> <<c>>]

Opt(sub) == [k |-> "opt", sub |-> sub]

Alt(n, subs) == [k |-> "alt", subs |-> subs, cap |-> n]

AtEnd == [k |-> "end"]

NoCapture == [set |-> FALSE, s |-> <<>>]

NoMatch == [ok |-> FALSE, caps |-> <<>>, start |-> 0, end |-> 0]

\* the number of characters of class cls at s[pos..], at most max
RunLen(s, pos, cls, ci, max) ==
    LET limit == IF Len(s) - pos + 1 < max THEN Len(s) - pos + 1 ELSE max
    IN  IF limit <= 0 THEN 0
        ELSE CHOOSE n \in 0..limit :
                (\A i \in 0..(n - 1) : InClass(s[pos + i], cls, ci))
                /\ (n = limit \/ ~InClass(s[pos + n], cls, ci))

\* is the literal text t at s[pos..]
LitAt(s, pos, t, ci) ==
    /\ pos + Len(t) - 1 <= Len(s)
    /\ \A i \in 1..Len(t) : InClass(s[pos + i - 1], t[i], ci)

\* capture group cap, when the item is one, becomes s[from..to]
SetCap(caps, cap, s, from, to) ==
    IF cap > 0 THEN [caps EXCEPT ![cap] = [set |-> TRUE, s |-> SubSeq(s, from, to)]]
    ELSE caps

\* the partial matches after item it, from the partial matches states
Step(it, s, ci, states) ==
    CASE it.k = "lit" ->
           { [st EXCEPT !.pos = @ + Len(it.s)] :
             st \in {x \in states : LitAt(s, x.pos, it.s, ci)} }
      [] it.k = "c" ->
           UNION { { [st EXCEPT !.pos = @ + n, !.prio = Append(@, n),
                                !.caps = SetCap(@, it.cap, s, st.pos, st.pos + n - 1)] :
                     n \in it.min..RunLen(s, st.pos, it.cls, ci, it.max) } :
                   st \in states }
      [] it.k = "end" -> {st \in states : st.pos = Len(s) + 1}

\* a partial match enters a group: its choice is recorded and its position
\* remembered for the capture
Enter(states, choice) ==
    { [st EXCEPT !.prio = Append(@, choice), !.from = <<st.pos>> \o @] : st \in states }

\* a partial match leaves a group, which captures when cap > 0
Leave(states, s, cap) ==
    { [st EXCEPT !.from = Tail(@), !.caps = SetCap(@, cap, s, st.from[1], st.pos - 1)] :
      st \in states }

RECURSIVE Run(_, _, _, _)

\* the partial matches after all of items
Run(items, s, ci, states) ==
    IF items = <<>> \/ states = {} THEN states
    ELSE Only({ Run(rest, str, flag, next) :
                rest \in {Tail(items)}, str \in {s}, flag \in {ci},
                next \in { CASE items[1].k = "opt" ->
                                  Leave(Run(items[1].sub, s, ci, Enter(states, 1)), s, 0)
                                  \cup { [st EXCEPT !.prio = Append(@, 0)] : st \in states }
                             [] items[1].k = "alt" ->
                                  UNION { Leave(Run(items[1].subs[i], s, ci,
                                                    Enter(states, 0 - i)), s, items[1].cap) :
                                          i \in 1..Len(items[1].subs) }
                             [] OTHER -> Step(items[1], s, ci, states) } })

\* does the match with choices a come before the one with choices b
Before(a, b) ==
    \E i \in 1..Len(a) :
        /\ i <= Len(b)
        /\ a[i] > b[i]
        /\ \A j \in 1..(i - 1) : a[j] = b[j]

\* String.prototype.match without the g flag: the first match (the matched
\* text is s[start..end-1]), or no match
RegexMatch(items, s, ncaps, ci) ==
    Only({ IF final = {} THEN NoMatch
           ELSE Only({ [ok |-> TRUE, caps |-> b.caps, start |-> b.start, end |-> b.pos] :
                       b \in {CHOOSE x \in final :
                                 \A y \in final : x = y \/ Before(x.prio, y.prio)} }) :
           final \in {Run(items, s, ci,
                          { [pos |-> p, start |-> p, prio |-> <<0 - p>>, from |-> <<>>,
                             caps |-> [i \in 1..ncaps |-> NoCapture]] :
                            p \in 1..(Len(s) + 1) })} })

\* String.prototype.includes
Includes(s, sub) ==
    \E i \in 1..(Len(s) - Len(sub) + 1) : SubSeq(s, i, i + Len(sub) - 1) = sub

\* String.prototype.trim
TrimLeft(s) ==
    LET n == CHOOSE k \in 0..Len(s) :
                (\A i \in 1..k : IsSpace(s[i])) /\ (k = Len(s) \/ ~IsSpace(s[k + 1]))
    IN  SubSeq(s, n + 1, Len(s))

TrimRight(s) ==
    LET n == CHOOSE k \in 0..Len(s) :
                (\A i \in (k + 1)..Len(s) : IsSpace(s[i])) /\ (k = 0 \/ ~IsSpace(s[k]))
    IN  SubSeq(s, 1, n)

Trim(s) == Only({TrimRight(t) : t \in {TrimLeft(s)}})

(***************************************************************************)
(* Numbers: parseInt and the Date object                                   *)
(***************************************************************************)

NaN == [nan |-> TRUE, v |-> 0]

Num(n) == [nan |-> FALSE, v |-> n]

\* the value of a run of decimal digits
RECURSIVE DigitsValue(_, _)
DigitsValue(s, acc) ==
    IF s = <<>> THEN acc ELSE DigitsValue(Tail(s), 10 * acc + DigitVal(s[1]))

\* stands for every number beyond the range of time values (8.64e15)
Huge == 2147483647

\* digit runs up to this length are evaluated exactly; the model's strings use
\* a longer run only with 17 digits or more, a number beyond 8.64e15
ExactDigits == 9

\* parseInt(string) with no radix: leading white space is skipped, a sign is
\* read, the longest prefix of decimal digits is the value and whatever
\* follows is ignored; NaN when there is no digit.  (The 0x prefix is not
\* modelled: the model's strings have no such prefix.)
ParseInt(s) ==
    Only({
    LET neg == t # <<>> /\ t[1] = "-"
        u == IF t # <<>> /\ t[1] \in {"-", "+"} THEN Tail(t) ELSE t
        n == RunLen(u, 1, "\\d", FALSE, Inf)
    IN  IF n = 0 THEN NaN
        ELSE IF n > ExactDigits THEN Num(IF neg THEN -Huge ELSE Huge)
        ELSE Num((IF neg THEN -1 ELSE 1) * DigitsValue(SubSeq(u, 1, n), 0)) :
    t \in {TrimLeft(s)}})


(***************************************************************************)
(* JavaScript values that may be a string, undefined or null               *)
(***************************************************************************)

Str(s) == [t |-> "string", s |-> s]

Undefined == [t |-> "undefined", s |-> <<>>]

Null == [t |-> "null", s |-> <<>>]

\* ToBoolean of such a value: undefined, null and the empty string are falsy
Truthy(x) == x.t = "string" /\ x.s # <<>>

(***************************************************************************)
(* The Date object.  A Date is [valid, t]: t is its time value; an Invalid *)
(* Date has valid = FALSE.  Dates built from calendar fields count t in    *)
(* seconds of local time since 1970-01-01 00:00 (no parser is finer than   *)
(* a second); Dates built from a number keep the number as time value.     *)
(***************************************************************************)

InvalidDate == [valid |-> FALSE, t |-> 0]

\* new Date(value) for a number: TimeClip makes the Date invalid for NaN and
\* beyond the range of time values
DateFromNumber(n) ==
    IF n.nan \/ n.v = Huge \/ n.v = -Huge THEN InvalidDate ELSE [valid |-> TRUE, t |-> n.v]

\* ECMAScript MakeDay: the day number of year/month (0-based, any integer)/date
MakeDay(year, month, date) ==
    LET ym == year + (month \div 12)
        mn == (month % 12) + 1
        y == IF mn <= 2 THEN ym - 1 ELSE ym
        era == y \div 400
        yoe == y - era * 400
        mp == IF mn > 2 THEN mn - 3 ELSE mn + 9
        doy == (153 * mp + 2) \div 5
        doe == yoe * 365 + (yoe \div 4) - (yoe \div 100) + doy
    IN  era * 146097 + doe - 719468 + (date - 1)

\* new Date(year, month, day, hour, minute) in local time; month is a number
\* or NaN (ToNumber(undefined)); a year 0..99 means 1900 + year
MakeLocalDate(year, month, day, hour, minute) ==
    IF month.nan THEN InvalidDate
    ELSE LET yr == IF year >= 0 /\ year <= 99 THEN 1900 + year ELSE year
         IN  [valid |-> TRUE,
              t |-> ((MakeDay(yr, month.v, day) * 24 + hour) * 60 + minute) * 60]

\* Date.prototype.toISOString: the text of the instant; a RangeError for an
\* Invalid Date.  The text is kept as the record [iso |-> t].
ToISOString(d) == IF d.valid THEN [throw |-> FALSE, iso |-> d.t] ELSE [throw |-> TRUE, iso |-> 0]

(***************************************************************************)
(* Date parsers (eventService.js 292-368, 551-609).  A parser returns      *)
(* [null |-> TRUE] or its result; Thrown is an exception leaving a body.   *)
(***************************************************************************)

NullDate == [null |-> TRUE, date |-> InvalidDate]

SomeDate(d) == [null |-> FALSE, date |-> d]

NullDates == [null |-> TRUE, startDate |-> InvalidDate, endDate |-> InvalidDate]

SomeDates(a, b) == [null |-> FALSE, startDate |-> a, endDate |-> b]

Thrown == [thrown |-> TRUE, value |-> <<>>]

Returned(v) == [thrown |-> FALSE, value |-> v]

\* /(\d{1,2})\.(\d{1,2})\.(\d{4})\s*(\d{1,2}):?(\d{2})?/
VisDateRegex ==
    << Cap(1, "\\d", 1, 2), Lit("."), Cap(2, "\\d", 1, 2), Lit("."), Cap(3, "\\d", 4, 4),
       Cls("\\s", 0, Inf), Cap(4, "\\d", 1, 2), Cls(":", 0, 1), Opt(<<Cap(5, "\\d", 2, 2)>>) >>

\* the body of parseDateString's try block (294-305)
ParseDateStringBody(dateStr) ==
    IF dateStr.t # "string" THEN Thrown
    ELSE Only({
         IF ~m.ok THEN Returned(NullDate)
         ELSE LET day == ParseInt(m.caps[1].s).v
                  month == ParseInt(m.caps[2].s).v - 1
                  year == ParseInt(m.caps[3].s).v
                  hour == IF m.caps[4].set /\ m.caps[4].s # <<>>
                          THEN ParseInt(m.caps[4].s).v ELSE 0
                  minute == IF m.caps[5].set /\ m.caps[5].s # <<>>
                            THEN ParseInt(m.caps[5].s).v ELSE 0
                  date == MakeLocalDate(year, Num(month), day, hour, minute)
              IN  Returned(IF ~date.valid THEN NullDate ELSE SomeDate(date)) :
         m \in {RegexMatch(VisDateRegex, dateStr.s, 5, FALSE)}})

\* parseDateString: the catch clause returns null
ParseDateString(dateStr) ==
    LET c == ParseDateStringBody(dateStr)
    IN  IF c.thrown THEN NullDate ELSE c.value

\* monthMap of parseEsnDateString (320-323)
MonthNames ==
    << <<"J", "a", "n", "u", "a", "r", "y">>,
       <<"F", "e", "b", "r", "u", "a", "r", "y">>,
       <<"M", "a", "r", "c", "h">>,
       <<"A", "p", "r", "i", "l">>,
       <<"M", "a", "y">>,
       <<"J", "u", "n", "e">>,
       <<"J", "u", "l", "y">>,
       <<"A", "u", "g", "u", "s", "t">>,
       <<"S", "e", "p", "t", "e", "m", "b", "e", "r">>,
       <<"O", "c", "t", "o", "b", "e", "r">>,
       <<"N", "o", "v", "e", "m", "b", "e", "r">>,
       <<"D", "e", "c", "e", "m", "b", "e", "r">> >>

\* monthMap of parseVmpDateString (554-557)
MonthAbbrs ==
    << <<"J", "a", "n">>,
       <<"F", "e", "b">>,
       <<"M", "a", "r">>,
       <<"A", "p", "r">>,
       <<"M", "a", "y">>,
       <<"J", "u", "n">>,
       <<"J", "u", "l">>,
       <<"A", "u", "g">>,
       <<"S", "e", "p">>,
       <<"O", "c", "t">>,
       <<"N", "o", "v">>,
       <<"D", "e", "c">> >>

\* monthMap[token]: the month number, or undefined, which ToNumber makes NaN
MonthLookup(table, token) ==
    IF \E i \in 1..12 : table[i] = token
    THEN Num((CHOOSE i \in 1..12 : table[i] = token) - 1)
    ELSE NaN

\* \w+\s+(\d+)\.\s+(\w+)\s+(\d{4})\s+(\d{1,2}):(\d{2}) with groups n+1..n+5
EsnDayTime(n) ==
    << Cls("\\w", 1, Inf), Cls("\\s", 1, Inf), Cap(n + 1, "\\d", 1, Inf), Lit("."),
       Cls("\\s", 1, Inf), Cap(n + 2, "\\w", 1, Inf), Cls("\\s", 1, Inf),
       Cap(n + 3, "\\d", 4, 4), Cls("\\s", 1, Inf), Cap(n + 4, "\\d", 1, 2), Lit(":"),
       Cap(n + 5, "\\d", 2, 2) >>

\* the separator \s*-\s*
EsnDash == << Cls("\\s", 0, Inf), Lit("-"), Cls("\\s", 0, Inf) >>

\* the multi-day pattern (326)
EsnMultiDayRegex == EsnDayTime(0) \o EsnDash \o EsnDayTime(5)

\* the single-day pattern (347)
EsnSingleDayRegex ==
    EsnDayTime(0) \o EsnDash \o << Cap(6, "\\d", 1, 2), Lit(":"), Cap(7, "\\d", 2, 2) >>

\* the body of parseEsnDateString's try block (320-363)
ParseEsnDateStringBody(dateStr) ==
    IF dateStr.t # "string" THEN Thrown
    ELSE Only({
         LET int(m, i) == ParseInt(m.caps[i].s).v
         IN  IF multi.ok
             THEN Returned(SomeDates(
                    MakeLocalDate(int(multi, 3), MonthLookup(MonthNames, multi.caps[2].s),
                                  int(multi, 1), int(multi, 4), int(multi, 5)),
                    MakeLocalDate(int(multi, 8), MonthLookup(MonthNames, multi.caps[7].s),
                                  int(multi, 6), int(multi, 9), int(multi, 10))))
             ELSE IF single.ok
             THEN Returned(SomeDates(
                    MakeLocalDate(int(single, 3), MonthLookup(MonthNames, single.caps[2].s),
                                  int(single, 1), int(single, 4), int(single, 5)),
                    MakeLocalDate(int(single, 3), MonthLookup(MonthNames, single.caps[2].s),
                                  int(single, 1), int(single, 6), int(single, 7))))
             ELSE Returned(NullDates) :
         multi \in {RegexMatch(EsnMultiDayRegex, dateStr.s, 10, FALSE)},
         single \in {RegexMatch(EsnSingleDayRegex, dateStr.s, 7, FALSE)}})

\* parseEsnDateString: the catch clause returns null
ParseEsnDateString(dateStr) ==
    LET c == ParseEsnDateStringBody(dateStr)
    IN  IF c.thrown THEN NullDates ELSE c.value

\* the period words of the VMP pattern (560) and the texts fetchVmpEvents
\* looks for (637-638, 689)
VmpWords ==
    [am |-> <<"a", ".", "m", ".">>,
     pm |-> <<"p", ".", "m", ".">>,
     noon |-> <<"n", "o", "o", "n">>,
     midnight |-> <<"m", "i", "d", "n", "i", "g", "h", "t">>,
     AlleEvents |-> <<"a", "l", "l", "e", "_", "e", "v", "e", "n", "t", "s">>,
     MeineEvents |-> <<"m", "e", "i", "n", "e", "_", "e", "v", "e", "n", "t", "s">>,
     HelperRecruitment |-> <<"h", "e", "l", "p", "e", "r", "-", "r", "e", "c", "r", "u", "i", "t", "m", "e", "n", "t">>,
     Duration |-> <<"D", "u", "r", "a", "t", "i", "o", "n", ":">>,
     EnEvents |-> <<"/", "e", "n", "/", "e", "v", "e", "n", "t", "s", "/">>]

\* /(\w+)\.\s+(\d+),\s+(\d{4}),\s+(\d+)(?::(\d+))?\s*(a\.m\.|p\.m\.|noon|midnight)?/i
VmpDateRegex ==
    << Cap(1, "\\w", 1, Inf), Lit("."), Cls("\\s", 1, Inf), Cap(2, "\\d", 1, Inf), Lit(","),
       Cls("\\s", 1, Inf), Cap(3, "\\d", 4, 4), Lit(","), Cls("\\s", 1, Inf),
       Cap(4, "\\d", 1, Inf), Opt(<<Lit(":"), Cap(5, "\\d", 1, Inf)>>), Cls("\\s", 0, Inf),
       Opt(<<Alt(6, << LitSeq(VmpWords.am), LitSeq(VmpWords.pm), LitSeq(VmpWords.noon), LitSeq(VmpWords.midnight) >>)>>) >>

\* /(\d+):(\d+):(\d+)/
VmpDurationRegex ==
    << Cap(1, "\\d", 1, Inf), Lit(":"), Cap(2, "\\d", 1, Inf), Lit(":"), Cap(3, "\\d", 1, Inf) >>

\* the body of parseVmpDateString's try block (554-604); durations are added
\* in seconds, the unit of the time value
ParseVmpDateStringBody(dateStr, durationStr) ==
    IF dateStr.t # "string" THEN Thrown
    ELSE Only({
         IF ~m.ok THEN Returned(NullDates)
         ELSE LET day == ParseInt(m.caps[2].s).v
                  year == ParseInt(m.caps[3].s).v
                  hour0 == ParseInt(m.caps[4].s).v
                  minute == IF m.caps[5].set /\ m.caps[5].s # <<>>
                            THEN ParseInt(m.caps[5].s).v ELSE 0
                  hasPeriod == m.caps[6].set /\ m.caps[6].s # <<>>
                  period == ToLowerCase(m.caps[6].s)
                  month == MonthLookup(MonthAbbrs, m.caps[1].s)
                  hour == IF hasPeriod /\ Includes(period, VmpWords.pm) /\ hour0 # 12 THEN hour0 + 12
                          ELSE IF hasPeriod /\ Includes(period, VmpWords.am) /\ hour0 = 12 THEN 0
                          ELSE hour0
                  startDate == MakeLocalDate(year, month, day, hour, minute)
                  endDate ==
                      IF Truthy(durationStr)
                      THEN IF dm.ok
                           THEN [startDate EXCEPT !.t = @ + ParseInt(dm.caps[1].s).v * 60 * 60
                                                          + ParseInt(dm.caps[2].s).v * 60
                                                          + ParseInt(dm.caps[3].s).v]
                           ELSE startDate
                      ELSE [startDate EXCEPT !.t = @ + 2 * 60 * 60]
              IN  IF month.nan THEN Returned(NullDates)
                  ELSE Returned(SomeDates(startDate, endDate)) :
         m \in {RegexMatch(VmpDateRegex, dateStr.s, 6, TRUE)},
         dm \in {RegexMatch(VmpDurationRegex, durationStr.s, 3, FALSE)}})

\* parseVmpDateString: the catch clause returns null
ParseVmpDateString(dateStr, durationStr) ==
    LET c == ParseVmpDateStringBody(dateStr, durationStr)
    IN  IF c.thrown THEN NullDates ELSE c.value

(***************************************************************************)
(* Events.  An event record keeps the fields the pipeline reads:           *)
(*   id, title  JavaScript values (a string, undefined or null)            *)
(*   source     the tag set by the adapter                                 *)
(*   dti        event['date-time-indication']: present tells whether the   *)
(*              field exists, hasRanges whether it has an                  *)
(*              'in-progress-timerange-array', ranges that array; a range  *)
(*              is [from, to], the Dates that its 'date-time-from' and     *)
(*              'date-time-to' texts denote (Invalid Date for a text that  *)
(*              denotes none); hasOpening and opening are 'opening-hours'  *)
(***************************************************************************)

NoOpening == [from |-> InvalidDate, to |-> InvalidDate]

NoDti == [present |-> FALSE, hasRanges |-> FALSE, ranges |-> <<>>,
          hasOpening |-> FALSE, opening |-> NoOpening]

\* the 'date-time-indication' the adapters build: one time range
SingleRange(startDate, endDate) ==
    [present |-> TRUE, hasRanges |-> TRUE,
     ranges |-> << [from |-> startDate, to |-> endDate] >>,
     hasOpening |-> FALSE, opening |-> NoOpening]

Event(id, source, title, dti) == [id |-> id, source |-> source, title |-> title, dti |-> dti]

\* the adapters, in the order of the array given to Promise.all (770-776)
Sources == <<"ETH", "UZH", "VIS", "ESN", "VMP">>

\* a catch clause that throws the error again
Rethrow(c) == c

\* the catch clause shared by the adapters and by fetchEvents:
\* catch (error) { console.error(...); return []; }
CatchReturnEmpty(c) == IF c.thrown THEN Returned(<<>>) ELSE c

(***************************************************************************)
(* HTTP.  The outcome of fetch(url) followed by reading the body is        *)
(*   [net |-> "reject"]          fetch rejects (network error, timeout)    *)
(*   [net |-> "status"]          a response with ok = false                *)
(*   [net |-> "badbody"]         response.json() / response.text() rejects *)
(*   [net |-> "ok", data |-> d]  the parsed body d                         *)
(***************************************************************************)

Reject == [net |-> "reject"]

BadStatus == [net |-> "status"]

BadBody == [net |-> "badbody"]

Ok(d) == [net |-> "ok", data |-> d]

(***************************************************************************)
(* fetchEthEvents (16-28).  The body of the JSON answer is                 *)
(*   [isNull, entries]: isNull for the JSON text null; entries is          *)
(*   data['entry-array']: [t |-> "undefined"], [t |-> "other"] (a value    *)
(*   that is not an array) or [t |-> "array", items |-> the entries].      *)
(* An entry is an event record as the API wrote it.                        *)
(***************************************************************************)

NoArray == [t |-> "undefined", items |-> <<>>]

NotAnArray == [t |-> "other", items |-> <<>>]

Array(items) == [t |-> "array", items |-> items]

\* event => ({ ...event, source: 'ETH' })
EthTag(entry) == [entry EXCEPT !.source = "ETH"]

\* the try block of fetchEthEvents (18-23)
FetchEthEventsBody(resp) ==
    IF resp.net # "ok" THEN Thrown
    ELSE IF resp.data.isNull THEN Thrown
    ELSE IF resp.data.entries.t = "undefined" THEN Returned(<<>>)
    ELSE IF resp.data.entries.t # "array" THEN Thrown
    ELSE Returned([i \in 1..Len(resp.data.entries.items) |->
                      EthTag(resp.data.entries.items[i])])

\* fetchEthEvents without its catch clause
FetchEthEventsUncaught(resp) == FetchEthEventsBody(resp)

FetchEthEvents(resp) == CatchReturnEmpty(FetchEthEventsBody(resp))

(***************************************************************************)
(* fetchUzhEvents (34-134).  The body is [isNull, entries] with entries =  *)
(* data.events; an entry is [isNull, id, dtstart, dtend, title,            *)
(* is_virtual], isNull for a JSON null in the array.                       *)
(***************************************************************************)

UzhEntry(id, dtstart, dtend, title, is_virtual) ==
    [isNull |-> FALSE, id |-> id, dtstart |-> dtstart, dtend |-> dtend,
     title |-> title, is_virtual |-> is_virtual]

NullEntry == [isNull |-> TRUE, id |-> Undefined, dtstart |-> Undefined, dtend |-> Undefined,
              title |-> Undefined, is_virtual |-> Undefined]

NullEvent == [null |-> TRUE]

\* the callback of data.events.map (49-126): null, the event, or a TypeError
\* for reading a property of null
UzhMapEntry(uzhEvent) ==
    IF uzhEvent.isNull THEN Thrown
    ELSE IF ~Truthy(uzhEvent.id) \/ ~Truthy(uzhEvent.dtstart) \/ ~Truthy(uzhEvent.dtend)
            \/ ~Truthy(uzhEvent.title)
    THEN Returned(NullEvent)
    ELSE LET startTimestamp == ParseInt(uzhEvent.dtstart.s)
             endTimestamp == ParseInt(uzhEvent.dtend.s)
             startDate == DateFromNumber(startTimestamp)
             endDate == DateFromNumber(endTimestamp)
         IN  IF startTimestamp.nan \/ endTimestamp.nan THEN Returned(NullEvent)
             ELSE IF ~startDate.valid \/ ~endDate.valid THEN Returned(NullEvent)
             ELSE Returned([null |-> FALSE, is_virtual |-> uzhEvent.is_virtual,
                            event |-> Event(uzhEvent.id, "UZH", uzhEvent.title,
                                            SingleRange(startDate, endDate))])

\* .filter(event => event !== null) and the filter of virtual events (126-129)
RECURSIVE UzhKeep(_)
UzhKeep(mapped) ==
    IF mapped = <<>> THEN <<>>
    ELSE LET m == mapped[1].value
         IN  (IF ~m.null /\ (~Truthy(m.is_virtual) \/ m.is_virtual = Str(<<>>))
              THEN <<m.event>> ELSE <<>>) \o UzhKeep(Tail(mapped))

\* the try block of fetchUzhEvents (36-129)
FetchUzhEventsBody(resp) ==
    IF resp.net # "ok" THEN Thrown
    ELSE IF resp.data.isNull THEN Thrown
    ELSE IF resp.data.entries.t # "array" THEN Returned(<<>>)
    ELSE LET mapped == [i \in 1..Len(resp.data.entries.items) |->
                           UzhMapEntry(resp.data.entries.items[i])]
         IN  IF \E i \in 1..Len(mapped) : mapped[i].thrown THEN Thrown
             ELSE Returned(UzhKeep(mapped))

FetchUzhEvents(resp) == CatchReturnEmpty(FetchUzhEventsBody(resp))

(***************************************************************************)
(* fetchVisEvents (140-285).  The parsed page is the sequence of its       *)
(* anchors in document order, each [href, text]: the href attribute and    *)
(* the textContent of the anchor.                                          *)
(***************************************************************************)

\* String.prototype.split('\n'): the texts between the line breaks
SplitLines(s) ==
    LET breaks == {i \in 1..Len(s) : s[i] = "\n"}
        \* the position of the k-th line break; 0 and Len(s) + 1 bound the text
        brk(k) == IF k = 0 THEN 0
                  ELSE IF k > Cardinality(breaks) THEN Len(s) + 1
                  ELSE CHOOSE i \in breaks : Cardinality({j \in breaks : j < i}) = k - 1
    IN  [k \in 1..(Cardinality(breaks) + 1) |-> SubSeq(s, brk(k - 1) + 1, brk(k) - 1)]

\* textContent.split('\n').map(l => l.trim()).filter(l => l) (171)
CardLines(text) ==
    Only({SelectSeq([i \in 1..Len(raw) |-> Trim(raw[i])], LAMBDA l : l # <<>>) :
            raw \in {SplitLines(text)}})

\* the texts fetchVisEvents looks for (153, 186-212)
VisWords ==
    [EventStartTime |-> <<"E", "v", "e", "n", "t", " ", "s", "t", "a", "r", "t", " ", "t", "i", "m", "e">>,
     EventEndTime |-> <<"E", "v", "e", "n", "t", " ", "e", "n", "d", " ", "t", "i", "m", "e">>,
     chf |-> <<"c", "h", "f">>,
     price |-> <<"p", "r", "i", "c", "e">>,
     fr |-> <<"f", "r", ".">>,
     EnEvents |-> <<"/", "e", "n", "/", "e", "v", "e", "n", "t", "s", "/">>]

\* /\/en\/events\/(\d+)\//
VisHrefRegex == LitSeq(VisWords.EnEvents) \o << Cap(1, "\\d", 1, Inf), Lit("/") >>

\* /(\d+)/
FirstDigitsRegex == << Cap(1, "\\d", 1, Inf) >>

\* the variables of the card scan (174-179)
VisScanInit == [title |-> <<>>, startTime |-> NullDate, endTime |-> NullDate, isFree |-> TRUE]

\* one iteration of the loop over the lines (183-218)
VisScanLine(lines, i, st) ==
    Only({
    LET next == IF i + 1 <= Len(lines) THEN Str(lines[i + 1]) ELSE Undefined
        title == IF st.title = <<>> /\ Len(line) > 5 /\ ~Includes(line, VisWords.EventStartTime)
                    /\ ~Includes(line, VisWords.EventEndTime)
                 THEN line ELSE st.title
        startTime == IF Includes(line, VisWords.EventStartTime) /\ Truthy(next)
                     THEN ParseDateString(next) ELSE st.startTime
        endTime == IF Includes(line, VisWords.EventEndTime) /\ Truthy(next)
                   THEN ParseDateString(next) ELSE st.endTime
        isFree == IF (Includes(lower, VisWords.chf) \/ Includes(lower, VisWords.price) \/ Includes(lower, VisWords.fr))
                     /\ priceMatch.ok /\ ParseInt(priceMatch.caps[1].s).v > 0
                  THEN FALSE ELSE st.isFree
    IN  [title |-> title, startTime |-> startTime, endTime |-> endTime, isFree |-> isFree] :
    line \in {lines[i]}, lower \in {ToLowerCase(lines[i])},
    priceMatch \in {RegexMatch(FirstDigitsRegex, lines[i], 1, FALSE)}})

\* the loop over the lines of a card (182-225)
RECURSIVE VisScan(_, _, _)
VisScan(lines, i, st) ==
    IF i > Len(lines) THEN st
    ELSE Only({VisScan(lines, i + 1, st2) : st2 \in {VisScanLine(lines, i, st)}})

\* the callback of eventLinks.forEach (157-278): the events and the seen ids
\* after the link
VisLink(link, acc) ==
    Only({
    LET eventId == match.caps[1].s
    IN  IF ~match.ok \/ eventId \in acc.seenIds THEN acc
        ELSE LET seen == acc.seenIds \cup {eventId}
             IN  IF st.title = <<>> \/ st.startTime.null \/ st.endTime.null
                 THEN [acc EXCEPT !.seenIds = seen]
                 ELSE IF ~st.isFree THEN [acc EXCEPT !.seenIds = seen]
                 ELSE [events |-> Append(acc.events,
                                         Event(Str(eventId), "VIS", Str(st.title),
                                               SingleRange(st.startTime.date,
                                                           st.endTime.date))),
                       seenIds |-> seen] :
    match \in {RegexMatch(VisHrefRegex, link.href, 1, FALSE)},
    st \in {Only({VisScan(lines, 1, VisScanInit) : lines \in {CardLines(link.text)}})}})

RECURSIVE VisLinks(_, _)
VisLinks(links, acc) ==
    IF links = <<>> THEN acc
    ELSE Only({VisLinks(Tail(links), acc2) : acc2 \in {VisLink(links[1], acc)}})

\* doc.querySelectorAll('a[href*="/en/events/"]')
SelectLinks(doc, part) == SelectSeq(doc, LAMBDA a : Includes(a.href, part))

\* the try block of fetchVisEvents (142-280)
FetchVisEventsBody(resp) ==
    IF resp.net # "ok" THEN Thrown
    ELSE Returned(VisLinks(SelectLinks(resp.data, VisWords.EnEvents),
                           [events |-> <<>>, seenIds |-> {}]).events)

FetchVisEvents(resp) == CatchReturnEmpty(FetchVisEventsBody(resp))

(***************************************************************************)
(* fetchEsnEvents (374-543).  The listing page is the sequence of its      *)
(* anchors, as for VIS.  A detail page is [rows, heading]: rows are the    *)
(* table rows of the page in document order, each the sequence of the      *)
(* textContent of its td cells; heading is the textContent of the first    *)
(* h1 or h2, or undefined when the page has none.                          *)
(***************************************************************************)

\* the texts fetchEsnEvents looks for (388, 435-453)
EsnWords ==
    [EventSlash |-> <<"e", "v", "e", "n", "t", "/">>,
     When |-> <<"W", "h", "e", "n">>,
     MeetingPlace |-> <<"M", "e", "e", "t", "i", "n", "g", " ", "p", "l", "a", "c", "e">>,
     Meeting |-> <<"M", "e", "e", "t", "i", "n", "g">>,
     Entrance |-> <<"E", "n", "t", "r", "a", "n", "c", "e">>,
     Fee |-> <<"F", "e", "e">>,
     WithoutEsncard |-> <<"w", "i", "t", "h", "o", "u", "t", " ", "E", "S", "N", "c", "a", "r", "d", ":">>,
     WithEsncard |-> <<"w", "i", "t", "h", " ", "E", "S", "N", "c", "a", "r", "d", ":">>]

\* /event\/(\d+)/
EsnHrefRegex == LitSeq(EsnWords.EventSlash) \o << Cap(1, "\\d", 1, Inf) >>

\* /without ESNcard:\s*CHF\s*([\d.]+)/ and /with ESNcard:\s*CHF\s*([\d.]+)/
EsnPriceRegex(prefix) ==
    LitSeq(prefix) \o << Cls("\\s", 0, Inf) >> \o LitSeq(<<"C", "H", "F">>)
    \o << Cls("\\s", 0, Inf), Cap(1, "[\\d.]", 1, Inf) >>

\* a price: absent is null (no price was read), nan is NaN, zero tells
\* whether the number is 0
NoPrice == [absent |-> TRUE, nan |-> FALSE, zero |-> FALSE]

\* parseFloat of a text of digits and periods: the longest prefix that is a
\* decimal literal; NaN when that prefix has no digit
ParseFloat(s) ==
    LET n == RunLen(s, 1, "\\d", FALSE, Inf)
        hasDot == n + 1 <= Len(s) /\ s[n + 1] = "."
        f == IF hasDot THEN RunLen(s, n + 2, "\\d", FALSE, Inf) ELSE 0
        digits == SubSeq(s, 1, n) \o (IF hasDot THEN SubSeq(s, n + 2, n + 1 + f) ELSE <<>>)
    IN  [absent |-> FALSE, nan |-> digits = <<>>,
         zero |-> digits # <<>> /\ \A i \in 1..Len(digits) : digits[i] = "0"]

\* price === 0 || price === null
ZeroOrNull(price) == price.absent \/ (~price.nan /\ price.zero)

\* the collection without the test of seenIds: one id for every anchor
RECURSIVE ListingIdsKeepAll(_, _, _)
ListingIdsKeepAll(links, regex, excluded) ==
    IF links = <<>> THEN <<>>
    ELSE Only({IF match.ok /\ match.caps[1].s \notin excluded
                  THEN Append(rest, match.caps[1].s) ELSE rest :
                 rest \in {ListingIdsKeepAll(SubSeq(links, 1, Len(links) - 1), regex, excluded)},
                 match \in {RegexMatch(regex, links[Len(links)].href, 1, FALSE)}})

\* the collection of the event ids from the listing (395-403)
RECURSIVE ListingIds(_, _, _)
ListingIds(links, regex, excluded) ==
    IF links = <<>> THEN <<>>
    ELSE Only({IF match.ok /\ match.caps[1].s \notin excluded
                     /\ \A i \in 1..Len(rest) : rest[i] # match.caps[1].s
                  THEN Append(rest, match.caps[1].s) ELSE rest :
                 rest \in {ListingIds(SubSeq(links, 1, Len(links) - 1), regex, excluded)},
                 match \in {RegexMatch(regex, links[Len(links)].href, 1, FALSE)}})

\* the variables of the scan of the detail page (419-425)
\* the variables with the free flag set from the start
EsnScanInitFree == [title |-> <<>>, dateStr |-> <<>>, priceWithCard |-> NoPrice,
                    priceWithoutCard |-> NoPrice, isFree |-> TRUE]

EsnScanInit == [title |-> <<>>, dateStr |-> <<>>, priceWithCard |-> NoPrice,
                priceWithoutCard |-> NoPrice, isFree |-> FALSE]

\* the callback of rows.forEach (429-461)
EsnScanRow(cells, st) ==
    IF Len(cells) >= 2
    THEN Only({
         LET priceWithoutCard == IF withoutMatch.ok THEN ParseFloat(withoutMatch.caps[1].s)
                                 ELSE st.priceWithoutCard
             priceWithCard == IF withMatch.ok THEN ParseFloat(withMatch.caps[1].s)
                              ELSE st.priceWithCard
         IN  IF label = EsnWords.When THEN [st EXCEPT !.dateStr = value]
             ELSE IF label = EsnWords.MeetingPlace THEN st
             ELSE IF Includes(label, EsnWords.Entrance) \/ Includes(label, EsnWords.Fee)
             THEN [st EXCEPT !.priceWithoutCard = priceWithoutCard,
                             !.priceWithCard = priceWithCard,
                             !.isFree = ZeroOrNull(priceWithCard) /\ ZeroOrNull(priceWithoutCard)]
             ELSE st :
         label \in {Trim(cells[1])}, value \in {Trim(cells[2])},
         withoutMatch \in {RegexMatch(EsnPriceRegex(EsnWords.WithoutEsncard), Trim(cells[2]), 1, FALSE)},
         withMatch \in {RegexMatch(EsnPriceRegex(EsnWords.WithEsncard), Trim(cells[2]), 1, FALSE)}})
    ELSE IF Len(cells) = 1
    THEN Only({IF st.title = <<>> /\ Len(content) > 5 /\ Len(content) < 100
                     /\ ~Includes(content, EsnWords.When) /\ ~Includes(content, EsnWords.Meeting)
                  THEN [st EXCEPT !.title = content] ELSE st :
               content \in {Trim(cells[1])}})
    ELSE st

RECURSIVE EsnScan(_, _)
EsnScan(rows, st) ==
    IF rows = <<>> THEN st
    ELSE Only({EsnScan(Tail(rows), st2) : st2 \in {EsnScanRow(rows[1], st)}})

\* an item of the detail loop gives no event (continue), or the event
Skip == [emit |-> FALSE]

Emit(e) == [emit |-> TRUE, event |-> e]

\* the try block of the detail loop (409-531) for the answer resp to the
\* detail request of eventId; toISOString throws for an Invalid Date
EsnItemBody(eventId, resp) ==
    IF resp.net = "reject" \/ resp.net = "badbody" THEN Thrown
    ELSE IF resp.net = "status" THEN Returned(Skip)
    ELSE Only({
         LET title == IF st.title = <<>> /\ resp.data.heading.t = "string"
                      THEN Trim(resp.data.heading.s) ELSE st.title
         IN  Only({
             IF dates.null THEN Returned(Skip)
             ELSE IF title = <<>> THEN Returned(Skip)
             ELSE IF ~st.isFree THEN Returned(Skip)
             ELSE IF ToISOString(dates.startDate).throw \/ ToISOString(dates.endDate).throw
             THEN Thrown
             ELSE Returned(Emit(Event(Str(eventId), "ESN", Str(title),
                                      SingleRange(dates.startDate, dates.endDate)))) :
             dates \in {ParseEsnDateString(Str(st.dateStr))}}) :
         st \in {EsnScan(resp.data.rows, EsnScanInit)}})

\* the catch clause of the detail loop (532-534, 751-753): the item is skipped
CatchSkipItem(c) == IF c.thrown THEN Returned(Skip) ELSE c

EsnItem(eventId, resp) == CatchSkipItem(EsnItemBody(eventId, resp))

\* the part of fetchEsnEvents up to the detail loop (376-404): the event ids
EsnListingBody(resp) ==
    IF resp.net # "ok" THEN Thrown
    ELSE Returned(ListingIds(SelectLinks(resp.data, EsnWords.EventSlash), EsnHrefRegex, {}))

(***************************************************************************)
(* fetchVmpEvents (615-762).  The listing page is the sequence of its      *)
(* anchors.  A detail page is [heading, bodyText]: the textContent of the  *)
(* first h1 (undefined when there is none) and of the body.                *)
(***************************************************************************)

\* /\/en\/events\/([^/]+)\/?$/
VmpHrefRegex == LitSeq(VmpWords.EnEvents) \o << Cap(1, "[^/]", 1, Inf), Cls("/", 0, 1), AtEnd >>

\* /(\w+\.\s+\d+,\s+\d{4},\s+\d+(?::\d+)?\s*(?:a\.m\.|p\.m\.|noon)?)/i
VmpBodyDateRegex ==
    << Alt(1, << << Cls("\\w", 1, Inf), Lit("."), Cls("\\s", 1, Inf), Cls("\\d", 1, Inf),
                    Lit(","), Cls("\\s", 1, Inf), Cls("\\d", 4, 4), Lit(","),
                    Cls("\\s", 1, Inf), Cls("\\d", 1, Inf),
                    Opt(<<Lit(":"), Cls("\\d", 1, Inf)>>), Cls("\\s", 0, Inf),
                    Opt(<<Alt(0, << LitSeq(VmpWords.am), LitSeq(VmpWords.pm), LitSeq(VmpWords.noon) >>)>>) >> >>) >>

\* /Duration:\s*(\d+:\d+:\d+)/
VmpBodyDurationRegex ==
    LitSeq(VmpWords.Duration) \o
    << Cls("\\s", 0, Inf),
       Alt(1, << << Cls("\\d", 1, Inf), Lit(":"), Cls("\\d", 1, Inf), Lit(":"),
                    Cls("\\d", 1, Inf) >> >>) >>

\* the try block of the detail loop (649-750) for the answer resp to the
\* detail request of slug
VmpItemBody(slug, resp) ==
    IF resp.net = "reject" \/ resp.net = "badbody" THEN Thrown
    ELSE IF resp.net = "status" THEN Returned(Skip)
    ELSE Only({
         LET title == IF resp.data.heading.t = "string" THEN Trim(resp.data.heading.s)
                      ELSE <<>>
             dateStr == IF dateMatch.ok THEN dateMatch.caps[1].s ELSE <<>>
             durationStr == IF durationMatch.ok THEN durationMatch.caps[1].s ELSE <<>>
         IN  Only({
             IF dates.null THEN Returned(Skip)
             ELSE IF title = <<>> THEN Returned(Skip)
             ELSE IF ToISOString(dates.startDate).throw \/ ToISOString(dates.endDate).throw
             THEN Thrown
             ELSE Returned(Emit(Event(Str(slug), "VMP", Str(title),
                                      SingleRange(dates.startDate, dates.endDate)))) :
             dates \in {ParseVmpDateString(Str(dateStr), Str(durationStr))}}) :
         dateMatch \in {RegexMatch(VmpBodyDateRegex, resp.data.bodyText, 1, TRUE)},
         durationMatch \in {RegexMatch(VmpBodyDurationRegex, resp.data.bodyText, 1, FALSE)}})

VmpItem(slug, resp) == CatchSkipItem(VmpItemBody(slug, resp))

\* the part of fetchVmpEvents up to the detail loop (617-642): the slugs
VmpListingBody(resp) ==
    IF resp.net # "ok" THEN Thrown
    ELSE Returned(ListingIds(SelectLinks(resp.data, VmpWords.EnEvents), VmpHrefRegex,
                             {VmpWords.AlleEvents, VmpWords.MeineEvents, VmpWords.HelperRecruitment}))

(***************************************************************************)
(* The answers of the five origins that the aggregation run is checked     *)
(* against.  Every adapter is given failures of the transport and of the   *)
(* body, an empty answer and answers with records; the concurrent run      *)
(* multiplies the answers of the five origins, so each set is kept small   *)
(* (the adapters are checked on larger sets of inputs one by one below).   *)
(***************************************************************************)

\* the most anchors of a listing page
MaxLinks == 2

\* the most entries of a JSON array
MaxEntries == 1

\* the sequences over set S of length at most n
RECURSIVE SeqsUpTo(_, _)
SeqsUpTo(S, n) ==
    IF n = 0 THEN {<<>>}
    ELSE LET shorter == SeqsUpTo(S, n - 1)
         IN  shorter \cup {Append(q, x) : q \in shorter, x \in S}

D(t) == [valid |-> TRUE, t |-> t]

\* an entry of the ETH API, and an entry without id and title (a JSON null
\* entry gives the same event: the spread of null has no property)
EthEntries ==
    { Event(Str(<<"1">>), "", Str(<<"L", "e", "c", "t", "u", "r", "e">>), SingleRange(D(1000), D(2000))),
      Event(Undefined, "", Undefined, NoDti) }

EthBodies ==
    { [isNull |-> TRUE, entries |-> NoArray], [isNull |-> FALSE, entries |-> NoArray],
      [isNull |-> FALSE, entries |-> NotAnArray] }
    \cup {[isNull |-> FALSE, entries |-> Array(q)] : q \in SeqsUpTo(EthEntries, MaxEntries) \ {<<>>}}

EthResponses == {Reject, BadStatus, BadBody} \cup {Ok(b) : b \in EthBodies}

\* entries of the UZH API: a complete one, one whose end precedes its start,
\* one without title and a JSON null
UzhEntries ==
    { UzhEntry(Str(<<"1">>), Str(<<"1", "0", "0", "0">>), Str(<<"2", "0", "0", "0">>), Str(<<"T", "a", "l", "k">>), Undefined),
      UzhEntry(Str(<<"2">>), Str(<<"2", "0", "0", "0">>), Str(<<"1", "0", "0", "0">>), Str(<<"F", "o", "r", "u", "m">>), Str(<<>>)),
      UzhEntry(Str(<<"3">>), Str(<<"1", "0", "0", "0">>), Str(<<"2", "0", "0", "0">>), Undefined, Undefined),
      NullEntry }

UzhBodies ==
    { [isNull |-> TRUE, entries |-> NoArray], [isNull |-> FALSE, entries |-> NoArray] }
    \cup {[isNull |-> FALSE, entries |-> Array(q)] : q \in SeqsUpTo(UzhEntries, MaxEntries) \ {<<>>}}

UzhResponses == {Reject, BadStatus, BadBody} \cup {Ok(b) : b \in UzhBodies}

\* anchors of the VIS listing: a free event, and a priced card with the same id
VisAnchors ==
    { [href |-> <<"/", "e", "n", "/", "e", "v", "e", "n", "t", "s", "/", "1", "/">>,
       text |-> <<"\n", " ", " ", "W", "e", "l", "c", "o", "m", "e", " ", "P", "a", "r", "t", "y", "\n", " ", " ", "E", "v", "e", "n", "t", " ", "s", "t", "a", "r", "t", " ", "t", "i", "m", "e", "\n", " ", "2", ".", "1", "2", ".", "2", "0", "2", "5", " ", "1", "6", ":", "0", "0", "\n", " ", "E", "v", "e", "n", "t", " ", "e", "n", "d", " ", "t", "i", "m", "e", "\n", " ", "2", ".", "1", "2", ".", "2", "0", "2", "5", " ", "1", "8", ":", "0", "0", "\n">>],
      [href |-> <<"/", "e", "n", "/", "e", "v", "e", "n", "t", "s", "/", "1", "/">>,
       text |-> <<"S", "k", "i", " ", "W", "e", "e", "k", "e", "n", "d", "\n", "E", "v", "e", "n", "t", " ", "s", "t", "a", "r", "t", " ", "t", "i", "m", "e", "\n", "5", ".", "1", "2", ".", "2", "0", "2", "5", " ", "8", ":", "0", "0", "\n", "E", "v", "e", "n", "t", " ", "e", "n", "d", " ", "t", "i", "m", "e", "\n", "7", ".", "1", "2", ".", "2", "0", "2", "5", " ", "2", "0", ":", "0", "0", "\n", "C", "H", "F", " ", "1", "5", ".", "0", "0">>] }

VisResponses == {Reject, BadStatus, BadBody} \cup {Ok(q) : q \in SeqsUpTo(VisAnchors, MaxLinks)}

\* anchors of the ESN listing
EsnAnchors == { [href |-> <<"/", "e", "v", "e", "n", "t", "/", "7">>, text |-> <<>>], [href |-> <<"/", "e", "v", "e", "n", "t", "/", "8">>, text |-> <<>>] }

EsnListings == {Reject, BadStatus, BadBody} \cup {Ok(q) : q \in SeqsUpTo(EsnAnchors, MaxLinks)}

\* detail pages of ESN: a free event that ends after midnight, and a priced one
EsnPages ==
    { [heading |-> Undefined,
       rows |-> << << <<"K", "a", "r", "a", "o", "k", "e", " ", "N", "i", "g", "h", "t">> >>,
                   << <<"W", "h", "e", "n">>, <<"W", "e", "d", " ", "3", ".", " ", "D", "e", "c", "e", "m", "b", "e", "r", " ", "2", "0", "2", "5", " ", "2", "0", ":", "0", "0", " ", "-", " ", "0", "2", ":", "0", "0">> >>,
                   << <<"E", "n", "t", "r", "a", "n", "c", "e", " ", "F", "e", "e">>,
                      <<"w", "i", "t", "h", "o", "u", "t", " ", "E", "S", "N", "c", "a", "r", "d", ":", " ", "C", "H", "F", " ", "0", ".", "0", "0", " ", "w", "i", "t", "h", " ", "E", "S", "N", "c", "a", "r", "d", ":", " ", "C", "H", "F", " ", "0", ".", "0", "0">> >> >>],
      [heading |-> Str(<<"S", "k", "i", " ", "T", "r", "i", "p">>),
       rows |-> << << <<"W", "h", "e", "n">>, <<"F", "r", "i", " ", "5", ".", " ", "D", "e", "c", "e", "m", "b", "e", "r", " ", "2", "0", "2", "5", " ", "0", "7", ":", "1", "0", " ", "-", " ", "S", "u", "n", " ", "7", ".", " ", "D", "e", "c", "e", "m", "b", "e", "r", " ", "2", "0", "2", "5", " ", "2", "0", ":", "2", "5">> >>,
                   << <<"E", "n", "t", "r", "a", "n", "c", "e", " ", "F", "e", "e">>,
                      <<"w", "i", "t", "h", "o", "u", "t", " ", "E", "S", "N", "c", "a", "r", "d", ":", " ", "C", "H", "F", " ", "9", "9", ".", "0", "0", " ", "w", "i", "t", "h", " ", "E", "S", "N", "c", "a", "r", "d", ":", " ", "C", "H", "F", " ", "8", "9", ".", "0", "0">> >> >>] }

EsnDetails == {Reject, BadStatus, BadBody} \cup {Ok(p) : p \in EsnPages}

\* anchors of the VMP listing: an event and the listing itself
VmpAnchors ==
    { [href |-> <<"/", "e", "n", "/", "e", "v", "e", "n", "t", "s", "/", "g", "l", "u", "e", "h", "w", "e", "i", "n", "/">>, text |-> <<>>],
      [href |-> <<"/", "e", "n", "/", "e", "v", "e", "n", "t", "s", "/", "a", "l", "l", "e", "_", "e", "v", "e", "n", "t", "s">>, text |-> <<>>] }

VmpListings == {Reject, BadStatus, BadBody} \cup {Ok(q) : q \in SeqsUpTo(VmpAnchors, MaxLinks)}

\* detail pages of VMP: an event, and a page without date
VmpPages ==
    { [heading |-> Str(<<"G", "l", "u", "e", "h", "w", "e", "i", "n">>),
       bodyText |-> <<"G", "l", "u", "e", "h", "w", "e", "i", "n", "\n", "D", "e", "c", ".", " ", "3", ",", " ", "2", "0", "2", "5", ",", " ", "6", " ", "p", ".", "m", ".", "\n", "D", "u", "r", "a", "t", "i", "o", "n", ":", " ", "4", ":", "0", "0", ":", "0", "0", "\n", "P", "l", "e", "a", "s", "e", " ", "l", "o", "g", "i", "n">>],
      [heading |-> Str(<<"M", "e", "m", "b", "e", "r", "s">>), bodyText |-> <<"P", "l", "e", "a", "s", "e", " ", "l", "o", "g", "i", "n">>] }

VmpDetails == {Reject, BadStatus, BadBody} \cup {Ok(p) : p \in VmpPages}

(***************************************************************************)
(* The aggregation run: fetchEvents (768-785) and the five adapter calls.  *)
(* A step of an adapter runs from one await to the next; the outcome of    *)
(* the awaited request is chosen when the step is taken.  fetch and the    *)
(* reading of the body (two awaits with nothing in between that another    *)
(* task can observe) are one step.                                         *)
(*   task[a].pc      "idle", "listing" (the first request is outstanding), *)
(*                   "detail" (a detail request is outstanding), "done"    *)
(*   task[a].net     how the first request ended                           *)
(*   task[a].queue   ESN, VMP: the ids whose detail page is still to be    *)
(*                   fetched, the head being the outstanding request       *)
(*   task[a].outstanding  ESN, VMP: the ids whose detail request has been  *)
(*                   issued and has not settled                            *)
(*   task[a].events  ESN, VMP: the events pushed so far                    *)
(*   task[a].result  what the call settled to: Returned(list) is a         *)
(*                   fulfilled promise, Thrown a rejected one              *)
(***************************************************************************)

NoCall == [fn |-> "none"]

\* localStorage.getItem gives null: the item was never set
NoItem == [present |-> FALSE, text |-> <<>>]

IdleTask == [pc |-> "idle", net |-> "none", queue |-> <<>>, outstanding |-> {},
             events |-> <<>>, result |-> Returned(<<>>)]

SourceSet == {Sources[i] : i \in 1..Len(Sources)}

\* the position of source a in the array given to Promise.all
Pos(a) == CHOOSE i \in 1..Len(Sources) : Sources[i] = a

Init ==
    /\ aggPc = "idle"
    /\ aggResult = <<>>
    /\ task = [a \in SourceSet |-> IdleTask]
    /\ inverted = FALSE
    /\ call = NoCall
    /\ ret = NoCall
    /\ storage = NoItem

\* fetchEvents is called: the five adapters are called in turn and each runs
\* to its first await, the request of its listing (770-776)
FetchEvents ==
    /\ aggPc = "idle"
    /\ aggPc' = "awaiting"
    /\ task' = [a \in SourceSet |-> [IdleTask EXCEPT !.pc = "listing"]]
    /\ UNCHANGED <<aggResult, inverted, call, ret, storage>>

\* a request that was rejected leaves the call pending for ever
SettleUnlessRejected(a, net, c) ==
    IF net = "reject"
    THEN /\ task' = [task EXCEPT ![a].pc = "pending", ![a].net = net]
         /\ UNCHANGED <<aggPc, aggResult, inverted, call, ret, storage>>
    ELSE /\ task' = [task EXCEPT ![a] = [pc |-> "done", net |-> net, queue |-> <<>>,
                                         outstanding |-> {}, events |-> <<>>, result |-> c]]
         /\ inverted' = (inverted \/ \E b \in SourceSet : Pos(b) > Pos(a) /\ task[b].pc = "done")
         /\ UNCHANGED <<aggPc, aggResult, call, ret, storage>>

\* adapter a settles to completion c
Settle(a, net, c) ==
    /\ task' = [task EXCEPT ![a] = [pc |-> "done", net |-> net, queue |-> <<>>,
                                    outstanding |-> {}, events |-> <<>>, result |-> c]]
    /\ inverted' = (inverted \/ \E b \in SourceSet : Pos(b) > Pos(a) /\ task[b].pc = "done")
    /\ UNCHANGED <<aggPc, aggResult, call, ret, storage>>

\* what each adapter settles to for each answer
EthOutcome == [r \in EthResponses |-> FetchEthEvents(r)]

UzhOutcome == [r \in UzhResponses |-> FetchUzhEvents(r)]

VisOutcome == [r \in VisResponses |-> FetchVisEvents(r)]

\* the answer of the ETH API arrives
EthResponse ==
    /\ task["ETH"].pc = "listing"
    /\ \E r \in EthResponses : Settle("ETH", r.net, EthOutcome[r])

\* the answer of the UZH API arrives
UzhResponse ==
    /\ task["UZH"].pc = "listing"
    /\ \E r \in UzhResponses : Settle("UZH", r.net, UzhOutcome[r])

\* the VIS listing page arrives
VisResponse ==
    /\ task["VIS"].pc = "listing"
    /\ \E r \in VisResponses : Settle("VIS", r.net, VisOutcome[r])

\* the detail requests of all ids are issued at once
ListingStepAllAtOnce(a, net, c) ==
    IF c.thrown THEN Settle(a, net, CatchReturnEmpty(c))
    ELSE IF c.value = <<>> THEN Settle(a, net, Returned(<<>>))
    ELSE /\ task' = [task EXCEPT ![a] = [pc |-> "detail", net |-> net, queue |-> c.value,
                                         outstanding |-> {c.value[i] : i \in 1..Len(c.value)},
                                         events |-> <<>>, result |-> Returned(<<>>)]]
         /\ UNCHANGED <<aggPc, aggResult, inverted, call, ret, storage>>

\* the listing of a detail-fetch adapter arrived and gave completion c (the
\* ids): the outer catch ends the call with [], an empty list of ids ends it
\* with no event, otherwise the first detail request is issued (407-410)
ListingStep(a, net, c) ==
    IF c.thrown THEN Settle(a, net, CatchReturnEmpty(c))
    ELSE IF c.value = <<>> THEN Settle(a, net, Returned(<<>>))
    ELSE /\ task' = [task EXCEPT ![a] = [pc |-> "detail", net |-> net, queue |-> c.value,
                                         outstanding |-> {Head(c.value)},
                                         events |-> <<>>, result |-> Returned(<<>>)]]
         /\ UNCHANGED <<aggPc, aggResult, inverted, call, ret, storage>>

\* the outstanding detail request settled and its item gave completion c:
\* the event is pushed, and the next request is issued or the call returns
\* the events (407, 530, 538)
DetailStep(a, c) ==
    LET events == IF c.value.emit THEN Append(task[a].events, c.value.event)
                  ELSE task[a].events
        queue == Tail(task[a].queue)
    IN  IF queue = <<>> THEN Settle(a, task[a].net, Returned(events))
        ELSE /\ task' = [task EXCEPT ![a].queue = queue, ![a].events = events,
                                     ![a].outstanding =
                                        (@ \ {Head(task[a].queue)}) \cup {Head(queue)}]
             /\ UNCHANGED <<aggPc, aggResult, inverted, call, ret, storage>>

EsnListingOutcome == [r \in EsnListings |-> EsnListingBody(r)]

EsnIds == UNION {{EsnListingOutcome[r].value[i] : i \in 1..Len(EsnListingOutcome[r].value)} :
                   r \in EsnListings}

EsnItemOutcome == [id \in EsnIds, r \in EsnDetails |-> EsnItem(id, r)]

VmpListingOutcome == [r \in VmpListings |-> VmpListingBody(r)]

VmpIds == UNION {{VmpListingOutcome[r].value[i] : i \in 1..Len(VmpListingOutcome[r].value)} :
                   r \in VmpListings}

VmpItemOutcome == [id \in VmpIds, r \in VmpDetails |-> VmpItem(id, r)]

\* the ESN listing page arrives
EsnListingResponse ==
    /\ task["ESN"].pc = "listing"
    /\ \E r \in EsnListings : ListingStep("ESN", r.net, EsnListingOutcome[r])

\* the outstanding ESN detail request settles
EsnDetailResponse ==
    /\ task["ESN"].pc = "detail"
    /\ \E r \in EsnDetails : DetailStep("ESN", EsnItemOutcome[Head(task["ESN"].queue), r])

\* the VMP listing page arrives
VmpListingResponse ==
    /\ task["VMP"].pc = "listing"
    /\ \E r \in VmpListings : ListingStep("VMP", r.net, VmpListingOutcome[r])

\* the outstanding VMP detail request settles
VmpDetailResponse ==
    /\ task["VMP"].pc = "detail"
    /\ \E r \in VmpDetails : DetailStep("VMP", VmpItemOutcome[Head(task["VMP"].queue), r])

\* Promise.all over the five calls: rejected as soon as one call is rejected,
\* fulfilled with the results in the order of the array when all are fulfilled
PromiseAllSettled ==
    \/ \E a \in SourceSet : task[a].pc = "done" /\ task[a].result.thrown
    \/ \A a \in SourceSet : task[a].pc = "done"

PromiseAll ==
    IF \E a \in SourceSet : task[a].pc = "done" /\ task[a].result.thrown THEN Thrown
    ELSE Returned([i \in 1..Len(Sources) |-> task[Sources[i]].result.value])

\* the lists joined in the opposite order
CombineReversed(outs) == outs[5] \o outs[4] \o outs[3] \o outs[2] \o outs[1]

\* [...ethEvents, ...uzhEvents, ...visEvents, ...esnEvents, ...vmpEvents] (780)
Combine(outs) == outs[1] \o outs[2] \o outs[3] \o outs[4] \o outs[5]

\* the try block of fetchEvents (770-780)
FetchEventsBody == IF PromiseAll.thrown THEN Thrown ELSE Returned(Combine(PromiseAll.value))

\* Promise.all settles and fetchEvents returns
FetchEventsReturn ==
    /\ aggPc = "awaiting"
    /\ PromiseAllSettled
    /\ LET c == CatchReturnEmpty(FetchEventsBody)
       IN  /\ aggPc' = IF c.thrown THEN "rejected" ELSE "resolved"
           /\ aggResult' = c.value
    /\ UNCHANGED <<task, inverted, call, ret, storage>>

Next ==
    \/ FetchEvents
    \/ EthResponse
    \/ UzhResponse
    \/ VisResponse
    \/ EsnListingResponse
    \/ EsnDetailResponse
    \/ VmpListingResponse
    \/ VmpDetailResponse
    \/ FetchEventsReturn

Spec == Init /\ [][Next]_vars


(***************************************************************************)
(* Properties of the aggregation run                                       *)
(***************************************************************************)

\* the events adapter a returned
EventsOf(a) == task[a].result.value

\* fetchEvents has settled
Settled == aggPc \in {"resolved", "rejected"}

\* the listing request of adapter a failed in transport or status
ListingFailed(a) == task[a].pc = "done" /\ task[a].net \in {"reject", "status"}

\* the events of list with source tag a, in their order
FromSource(list, a) == SelectSeq(list, LAMBDA e : e.source = a)

\* C1: when the listing request of an adapter rejects or answers with a
\* non-success status, fetchEvents still resolves, its list holds the events
\* every other adapter returned and no event of the failing adapter
C1_AggregatorResilience ==
    \A a \in SourceSet :
        (Settled /\ ListingFailed(a)) =>
            /\ aggPc = "resolved"
            /\ FromSource(aggResult, a) = <<>>
            /\ \A b \in SourceSet \ {a} :
                  (task[b].pc = "done" /\ ~task[b].result.thrown) =>
                      FromSource(aggResult, b) = EventsOf(b)

\* fetchEvents resolved after the ETH request was rejected and the UZH
\* request answered with status 500, with events of VIS, ESN and VMP
C1_Witness ==
    /\ aggPc = "resolved"
    /\ task["ETH"].net = "reject"
    /\ task["UZH"].net = "status"
    /\ EventsOf("VIS") # <<>> /\ EventsOf("ESN") # <<>> /\ EventsOf("VMP") # <<>>
    /\ Len(aggResult) = Len(EventsOf("VIS")) + Len(EventsOf("ESN")) + Len(EventsOf("VMP"))

\* C2: fetchEvents never rejects: whatever the adapters meet, the promise is
\* not rejected, and until it is resolved the run can take a step
C2_NeverRejects ==
    /\ aggPc # "rejected"
    /\ \A a \in SourceSet : ~task[a].result.thrown
    /\ aggPc # "resolved" => ENABLED Next

\* fetchEvents resolved after every first request failed, in each of the
\* three ways
C2_Witness ==
    /\ aggPc = "resolved"
    /\ \A a \in SourceSet : task[a].net \in {"reject", "status", "badbody"}
    /\ \A n \in {"reject", "status", "badbody"} : \E a \in SourceSet : task[a].net = n
    /\ aggResult = <<>>

\* C3: the list of fetchEvents is the lists of ETH, UZH, VIS, ESN and VMP
\* joined in this order, whatever the order in which the adapters settled,
\* and events of different sources with the same id are all kept
C3_FixedOrderNoDedup ==
    aggPc = "resolved" =>
        aggResult = EventsOf("ETH") \o EventsOf("UZH") \o EventsOf("VIS")
                    \o EventsOf("ESN") \o EventsOf("VMP")

\* the adapters settled out of the order of the array, every adapter
\* returned an event, and the ETH, UZH and VIS events have the same id
C3_Witness ==
    /\ aggPc = "resolved"
    /\ inverted
    /\ \A a \in SourceSet : EventsOf(a) # <<>>
    /\ \E i, j, k \in 1..Len(aggResult) :
          /\ i < j /\ j < k
          /\ aggResult[i].source = "ETH" /\ aggResult[j].source = "UZH"
          /\ aggResult[k].source = "VIS"
          /\ aggResult[i].id = aggResult[j].id /\ aggResult[j].id = aggResult[k].id

\* C4: every event an adapter returns, and so every event of fetchEvents,
\* has a non-empty id, a source tag and a non-empty title
C4_RequiredFields ==
    \A a \in SourceSet : \A i \in 1..Len(EventsOf(a)) :
        /\ Truthy(EventsOf(a)[i].id)
        /\ EventsOf(a)[i].source \in SourceSet
        /\ Truthy(EventsOf(a)[i].title)

\* the part of C4 that holds: the adapters other than ETH return only events
\* with id, source tag and title
C4_ValidatingAdapters ==
    \A a \in SourceSet \ {"ETH"} : \A i \in 1..Len(EventsOf(a)) :
        /\ Truthy(EventsOf(a)[i].id)
        /\ EventsOf(a)[i].source = a
        /\ Truthy(EventsOf(a)[i].title)

\* fetchEvents resolved with an ETH event that has neither id nor title
C4_Witness ==
    /\ aggPc = "resolved"
    /\ \E i \in 1..Len(aggResult) :
          /\ aggResult[i].source = "ETH"
          /\ ~Truthy(aggResult[i].id)
          /\ ~Truthy(aggResult[i].title)

\* C5: in every time range of every event an adapter returns, the start is
\* not later than the end
C5_StartNotAfterEnd ==
    \A a \in SourceSet : \A i \in 1..Len(EventsOf(a)) :
        \A k \in 1..Len(EventsOf(a)[i].dti.ranges) :
            LET r == EventsOf(a)[i].dti.ranges[k]
            IN  (r.from.valid /\ r.to.valid) => r.from.t <= r.to.t

\* fetchEvents resolved with a UZH event and an ESN event whose ranges end
\* before they start
C5_Witness ==
    /\ aggPc = "resolved"
    /\ \A a \in {"UZH", "ESN"} :
          \E i \in 1..Len(aggResult) :
              /\ aggResult[i].source = a
              /\ aggResult[i].dti.ranges[1].from.t > aggResult[i].dti.ranges[1].to.t

(***************************************************************************)
(* filterEventsNext2Weeks (792-823).  The clock is read as one instant,    *)
(* the local time value clock in seconds.  A range of an event keeps the   *)
(* Date that new Date(timeRange['date-time-from']) gives: the instant the  *)
(* text names, or an Invalid Date for a text that names none.              *)
(***************************************************************************)

\* the day number and the seconds within the day of a time value
Day(t) == t \div (24 * 60 * 60)

TimeWithinDay(t) == t % (24 * 60 * 60)

\* the year, month (0-based) and day of the month of day number days
YearMonthDate(days) ==
    LET z == days + 719468
        era == z \div 146097
        doe == z - era * 146097
        yoe == (doe - (doe \div 1460) + (doe \div 36524) - (doe \div 146096)) \div 365
        doy == doe - (365 * yoe + (yoe \div 4) - (yoe \div 100))
        mp == (5 * doy + 2) \div 153
        mn == IF mp < 10 THEN mp + 3 ELSE mp - 9
    IN  [year |-> yoe + era * 400 + (IF mn <= 2 THEN 1 ELSE 0),
         month |-> mn - 1,
         date |-> doy - ((153 * mp + 2) \div 5) + 1]

\* Date.prototype.getDate
GetDate(d) == YearMonthDate(Day(d.t)).date

\* Date.prototype.setDate: the day of the month is replaced, the year, the
\* month and the time within the day are kept
SetDate(d, date) ==
    [valid |-> TRUE,
     t |-> MakeDay(YearMonthDate(Day(d.t)).year, YearMonthDate(Day(d.t)).month, date)
           * (24 * 60 * 60) + TimeWithinDay(d.t)]

\* a >= b on Dates: false when either is an Invalid Date (NaN)
DateGe(a, b) == a.valid /\ b.valid /\ a.t >= b.t

\* the horizon that is one day short
ThirteenDaysFromNow(clock) == SetDate(D(clock), GetDate(D(clock)) + 13)

\* twoWeeksFromNow (794-795)
TwoWeeksFromNow(clock) == SetDate(D(clock), GetDate(D(clock)) + 14)

\* the callback of events.filter (797-822)
InNext2Weeks(event, now, twoWeeksFromNow) ==
    IF ~event.dti.present THEN FALSE
    ELSE IF event.dti.hasRanges
    THEN \E k \in 1..Len(event.dti.ranges) :
            /\ DateGe(event.dti.ranges[k].from, now)
            /\ DateGe(twoWeeksFromNow, event.dti.ranges[k].from)
    ELSE IF event.dti.hasOpening
    THEN /\ DateGe(twoWeeksFromNow, event.dti.opening.from)
         /\ DateGe(event.dti.opening.to, now)
    ELSE FALSE

FilterEventsNext2Weeks(events, clock) ==
    SelectSeq(events, LAMBDA e : InNext2Weeks(e, D(clock), TwoWeeksFromNow(clock)))

(***************************************************************************)
(* Calls of filterEventsNext2Weeks: the clock is at a morning in November  *)
(* or at an evening in the last week of December, and each event is one    *)
(* of the cases below, placed relative to the clock.                       *)
(***************************************************************************)

\* the most events of a list given to a filter
MaxEvents == 2

\* 2025-11-25 10:00 and 2025-12-25 18:30, local time
Clocks == { (20417 * 24 + 10) * 3600, ((20447 * 24 + 18) * 60 + 30) * 60 }

\* the seconds from the clock to the start of a range
Offsets == { -1, 0, 1, 13 * 24 * 3600, 14 * 24 * 3600 - 1, 14 * 24 * 3600,
             14 * 24 * 3600 + 1, 15 * 24 * 3600 }

FilterCases ==
    {[k |-> "range", off |-> o] : o \in Offsets}
    \cup {[k |-> c, off |-> 0] : c \in {"nodti", "empty", "nothing", "invalid", "opening", "two"}}
    \cup {[k |-> c, off |-> 0] : c \in {"openingPast", "openingFuture", "bothEmpty", "bothPast"}}

\* the event of case c for the clock, with id n
FilterEvent(c, clock, n) ==
    Event(Str(<<DigitChars[n + 1]>>), "ETH", Str(<<"T", "a", "l", "k">>),
          CASE c.k = "range" -> SingleRange(D(clock + c.off), D(clock + c.off + 3600))
            [] c.k = "nodti" -> NoDti
            [] c.k = "empty" -> [SingleRange(InvalidDate, InvalidDate) EXCEPT !.ranges = <<>>]
            [] c.k = "nothing" -> [NoDti EXCEPT !.present = TRUE]
            [] c.k = "invalid" -> SingleRange(InvalidDate, InvalidDate)
            [] c.k = "opening" ->
                 [NoDti EXCEPT !.present = TRUE, !.hasOpening = TRUE,
                               !.opening = [from |-> D(clock - 3600), to |-> D(clock + 3600)]]
            [] c.k = "openingPast" ->
                 [NoDti EXCEPT !.present = TRUE, !.hasOpening = TRUE,
                               !.opening = [from |-> D(clock - 7200), to |-> D(clock - 1)]]
            [] c.k = "openingFuture" ->
                 [NoDti EXCEPT !.present = TRUE, !.hasOpening = TRUE,
                               !.opening = [from |-> D(clock + 14 * 24 * 3600 + 1),
                                            to |-> D(clock + 15 * 24 * 3600)]]
            [] c.k = "bothEmpty" ->
                 [NoDti EXCEPT !.present = TRUE, !.hasRanges = TRUE, !.hasOpening = TRUE,
                               !.opening = [from |-> D(clock - 3600), to |-> D(clock + 3600)]]
            [] c.k = "bothPast" ->
                 [SingleRange(D(clock - 7200), D(clock - 3600)) EXCEPT
                    !.hasOpening = TRUE,
                    !.opening = [from |-> D(clock - 3600), to |-> D(clock + 3600)]]
            [] c.k = "two" ->
                 [SingleRange(InvalidDate, InvalidDate) EXCEPT
                    !.ranges = << [from |-> D(clock - 3600), to |-> D(clock)],
                                  [from |-> D(clock + 3600), to |-> D(clock + 7200)] >>])

\* filterEventsNext2Weeks is called and returns
FilterCall ==
    /\ call = NoCall
    /\ \E clock \in Clocks, cases \in SeqsUpTo(FilterCases, MaxEvents) :
          LET events == [i \in 1..Len(cases) |-> FilterEvent(cases[i], clock, i)]
          IN  /\ call' = [fn |-> "filterEventsNext2Weeks", clock |-> clock, events |-> events]
              /\ ret' = FilterEventsNext2Weeks(events, clock)
    /\ UNCHANGED <<aggVars, storage>>

SpecFilter == Init /\ [][FilterCall]_vars

\* event e is in the list the call returned
Retained(e) == \E j \in 1..Len(ret) : ret[j] = e

\* C10: with the clock at T, an event with one time range is retained
\* exactly when its start is in [T, T + 14 days]; an event with an empty
\* list of ranges, with no range at all or with no date information is not
\* retained
C10_TwoWeekWindow ==
    call.fn = "filterEventsNext2Weeks" =>
        \A i \in 1..Len(call.events) :
            LET e == call.events[i]
                start == e.dti.ranges[1].from
            IN  /\ (e.dti.hasRanges /\ Len(e.dti.ranges) = 1 /\ start.valid) =>
                      (Retained(e) <=> (call.clock <= start.t
                                        /\ start.t <= call.clock + 14 * 24 * 60 * 60))
                /\ (~e.dti.present \/ (e.dti.hasRanges /\ e.dti.ranges = <<>>)
                    \/ (~e.dti.hasRanges /\ ~e.dti.hasOpening)) => ~Retained(e)

\* a call on 25 December that retained the event starting 14 days later and
\* dropped the event starting one second after that
C10_Witness ==
    /\ call.fn = "filterEventsNext2Weeks"
    /\ YearMonthDate(Day(call.clock)).month = 11
    /\ Len(call.events) = 2
    /\ call.events[1].dti.ranges # <<>>
    /\ call.events[2].dti.ranges # <<>>
    /\ call.events[1].dti.ranges[1].from = D(call.clock + 14 * 24 * 60 * 60)
    /\ call.events[2].dti.ranges[1].from = D(call.clock + 14 * 24 * 60 * 60 + 1)
    /\ ret = <<call.events[1]>>

(***************************************************************************)
(* The filter on events that carry opening hours.                          *)
(***************************************************************************)

\* a range of e starts in [T, T + 14 days]
StartsInWindow(e, clock) ==
    /\ e.dti.present
    /\ e.dti.hasRanges
    /\ \E k \in 1..Len(e.dti.ranges) :
          /\ e.dti.ranges[k].from.valid
          /\ clock <= e.dti.ranges[k].from.t
          /\ e.dti.ranges[k].from.t <= clock + 14 * 24 * 60 * 60

\* the opening hours of e overlap [T, T + 14 days]
OpeningOverlaps(e, clock) ==
    /\ e.dti.present
    /\ e.dti.hasOpening
    /\ e.dti.opening.from.valid
    /\ e.dti.opening.to.valid
    /\ e.dti.opening.from.t <= clock + 14 * 24 * 60 * 60
    /\ e.dti.opening.to.t >= clock

\* C11: an event is retained when one of its range starts is in the window
\* or its opening hours overlap the window, also when it carries both a
\* list of ranges and opening hours
C11_RangeOrOpening ==
    call.fn = "filterEventsNext2Weeks" =>
        \A i \in 1..Len(call.events) :
            (StartsInWindow(call.events[i], call.clock)
             \/ OpeningOverlaps(call.events[i], call.clock)) => Retained(call.events[i])

\* the part of C11 that holds: an event without a list of ranges is
\* retained exactly when its opening hours overlap the window, and an
\* event without opening hours exactly when a range starts in the window
C11_EitherAlone ==
    call.fn = "filterEventsNext2Weeks" =>
        \A i \in 1..Len(call.events) :
            LET e == call.events[i]
            IN  /\ ~e.dti.hasRanges => (Retained(e) <=> OpeningOverlaps(e, call.clock))
                /\ ~e.dti.hasOpening => (Retained(e) <=> StartsInWindow(e, call.clock))

\* a call whose only event has an empty list of ranges and opening hours
\* around the clock, and that returned nothing
C11_Witness ==
    /\ call.fn = "filterEventsNext2Weeks"
    /\ Len(call.events) = 1
    /\ call.events[1].dti.hasRanges
    /\ call.events[1].dti.ranges = <<>>
    /\ OpeningOverlaps(call.events[1], call.clock)
    /\ ret = <<>>

(***************************************************************************)
(* Calls of the three date parsers.  A call keeps the text given to the    *)
(* parser and, for a text built from fields, the fields; conforming tells  *)
(* whether the text has the shape the parser documents, with tokens of     *)
(* its tables.                                                             *)
(***************************************************************************)

\* the decimal text of n, 0 <= n <= 9999, and its two-digit text
Dec(n) ==
    IF n < 10 THEN <<DigitChars[n + 1]>>
    ELSE IF n < 100 THEN <<DigitChars[(n \div 10) + 1], DigitChars[(n % 10) + 1]>>
    ELSE IF n < 1000
    THEN <<DigitChars[(n \div 100) + 1], DigitChars[((n \div 10) % 10) + 1],
           DigitChars[(n % 10) + 1]>>
    ELSE <<DigitChars[(n \div 1000) + 1], DigitChars[((n \div 100) % 10) + 1],
           DigitChars[((n \div 10) % 10) + 1], DigitChars[(n % 10) + 1]>>

Pad2(n) == <<DigitChars[(n \div 10) + 1], DigitChars[(n % 10) + 1]>>

\* D.M.YYYY and D.M.YYYY H:MM
DottedInputs ==
    {[d |-> d, m |-> m, y |-> y, time |-> FALSE, h |-> 0, mi |-> 0] :
       d \in {2, 29}, m \in {2, 12}, y \in {2024, 2025}}
    \cup {[d |-> d, m |-> m, y |-> y, time |-> TRUE, h |-> h, mi |-> mi] :
            d \in {2, 29}, m \in {2, 12}, y \in {2024, 2025}, h \in {0, 9, 16}, mi \in {0, 5}}

DottedText(i) ==
    Dec(i.d) \o <<".">> \o Dec(i.m) \o <<".">> \o Dec(i.y)
    \o (IF i.time THEN <<" ">> \o Dec(i.h) \o <<":">> \o Pad2(i.mi) ELSE <<>>)

\* values that are no date text of any parser
NoDateTexts ==
    { Undefined, Null, Str(<<>>), Str(<<"t", "o", "m", "o", "r", "r", "o", "w">>), Str(<<"2", "/", "1", "2", "/", "2", "0", "2", "5", " ", "1", "6", ":", "0", "0">>),
      Str(<<"2", ".", "1", "2", ".", "2", "5", " ", "1", "6", ":", "0", "0">>), Str(<<"1", "6", ":", "0", "0">>), Str(<<"W", "e", "d", " ", "3", " ", "D", "e", "c", "e", "m", "b", "e", "r", " ", "2", "0", "2", "5", " ", "2", "0", ":", "0", "0", " ", "-", " ", "2", "3", ":", "5", "5">>),
      Str(<<"W", "e", "d", " ", "3", ".", " ", "D", "e", "c", "e", "m", "b", "e", "r", " ", "2", "0", "2", "5">>), Str(<<"D", "e", "c", " ", "3", " ", "2", "0", "2", "5">>) }

\* the ESN texts: a weekday token, a month token, one day or several
EsnInputs ==
    {[weekday |-> w, month |-> m, multi |-> b] :
       w \in {<<"W", "e", "d">>, <<"X", "y", "z">>}, m \in {MonthNames[12], MonthNames[2], <<"F", "o", "o">>, <<"d", "e", "c", "e", "m", "b", "e", "r">>},
       b \in BOOLEAN}

EsnText(i) ==
    i.weekday \o <<" ", "3", ".", " ">> \o i.month \o <<" ", "2", "0", "2", "5", " ", "2", "0", ":", "0", "0", " ", "-", " ">>
    \o (IF i.multi THEN <<"S", "u", "n", " ", "7", ".", " ">> \o i.month \o <<" ", "2", "0", "2", "5", " ", "2", "0", ":", "2", "5">> ELSE <<"2", "3", ":", "5", "5">>)

EsnConforming(i) ==
    /\ i.weekday = <<"W", "e", "d">>
    /\ \E k \in 1..12 : MonthNames[k] = i.month

\* the VMP texts: a month abbreviation, minutes or none, a period or none,
\* and the duration text given with them
VmpInputs ==
    {[abbr |-> a, minutes |-> mi, period |-> p, duration |-> du] :
       a \in {MonthAbbrs[12], <<"F", "o", "o">>, <<"d", "e", "c">>}, mi \in {<<>>, <<":", "3", "0">>},
       p \in {<<>>, <<" ", "p", ".", "m", ".">>, <<" ", "a", ".", "m", ".">>, <<" ", "n", "o", "o", "n">>},
       du \in {Str(<<"4", ":", "0", "0", ":", "0", "0">>), Undefined, Str(<<"s", "o", "o", "n">>)}}

VmpText(i) == i.abbr \o <<".", " ", "3", ",", " ", "2", "0", "2", "5", ",", " ", "6">> \o i.minutes \o i.period

VmpConforming(i) == \E k \in 1..12 : MonthAbbrs[k] = i.abbr

NoFields == [none |-> TRUE]

\* parseDateString is called and returns
ParseDateStringCall ==
    /\ call = NoCall
    /\ \/ \E i \in DottedInputs :
             /\ call' = [fn |-> "parseDateString", conforming |-> TRUE, fields |-> i,
                         text |-> Str(DottedText(i))]
             /\ ret' = ParseDateString(Str(DottedText(i)))
       \/ \E x \in NoDateTexts :
             /\ call' = [fn |-> "parseDateString", conforming |-> FALSE, fields |-> NoFields,
                         text |-> x]
             /\ ret' = ParseDateString(x)
    /\ UNCHANGED <<aggVars, storage>>

\* parseEsnDateString is called and returns
ParseEsnDateStringCall ==
    /\ call = NoCall
    /\ \/ \E i \in EsnInputs :
             /\ call' = [fn |-> "parseEsnDateString", conforming |-> EsnConforming(i),
                         fields |-> i, text |-> Str(EsnText(i))]
             /\ ret' = ParseEsnDateString(Str(EsnText(i)))
       \/ \E x \in NoDateTexts :
             /\ call' = [fn |-> "parseEsnDateString", conforming |-> FALSE,
                         fields |-> NoFields, text |-> x]
             /\ ret' = ParseEsnDateString(x)
    /\ UNCHANGED <<aggVars, storage>>

\* parseVmpDateString is called and returns
ParseVmpDateStringCall ==
    /\ call = NoCall
    /\ \/ \E i \in VmpInputs :
             /\ call' = [fn |-> "parseVmpDateString", conforming |-> VmpConforming(i),
                         fields |-> i, text |-> Str(VmpText(i))]
             /\ ret' = ParseVmpDateString(Str(VmpText(i)), i.duration)
       \/ \E x \in NoDateTexts :
             /\ call' = [fn |-> "parseVmpDateString", conforming |-> FALSE,
                         fields |-> NoFields, text |-> x]
             /\ ret' = ParseVmpDateString(x, Undefined)
    /\ UNCHANGED <<aggVars, storage>>

NextParse ==
    \/ ParseDateStringCall
    \/ ParseEsnDateStringCall
    \/ ParseVmpDateStringCall

SpecParse == Init /\ [][NextParse]_vars

ParserCalled == call.fn \in {"parseDateString", "parseEsnDateString", "parseVmpDateString"}

\* C7: a date parser returns null for every input that does not conform to
\* its shape: no text, an empty text, a text its pattern does not match, a
\* text whose weekday or month token is not one of the parser's table
C7_MalformedGivesNull ==
    (ParserCalled /\ ~call.conforming) => ret.null

\* the part of C7 that holds: parseDateString and parseVmpDateString return
\* null for every such input, and parseEsnDateString does for every input
\* its patterns do not match
C7_ExceptEsnTokens ==
    (ParserCalled /\ ~call.conforming
     /\ (call.fn = "parseEsnDateString" => call.fields = NoFields)) => ret.null

\* parseEsnDateString was given a text with the month token Foo and returned
\* a result whose dates are invalid
C7_Witness ==
    /\ call.fn = "parseEsnDateString"
    /\ call.fields # NoFields
    /\ call.fields.month = <<"F", "o", "o">>
    /\ ~ret.null
    /\ ~ret.startDate.valid /\ ~ret.endDate.valid

\* the calendar, counted without the Date object: leap years, the days
\* before a year and before a month, and the seconds from 1970-01-01 00:00
\* to the minute h:mi of day d of month m (1-based) of year y
IsLeap(y) == (y % 4 = 0 /\ y % 100 # 0) \/ y % 400 = 0

DaysBeforeYear(y) ==
    365 * (y - 1970) + ((y - 1969) \div 4) - ((y - 1901) \div 100) + ((y - 1601) \div 400)

DaysBeforeMonth == <<0, 31, 59, 90, 120, 151, 181, 212, 243, 273, 304, 334>>

DaysInMonth(y, m) ==
    IF m = 2 THEN (IF IsLeap(y) THEN 29 ELSE 28)
    ELSE IF m \in {4, 6, 9, 11} THEN 30 ELSE 31

LocalSeconds(y, m, d, h, mi) ==
    (((DaysBeforeYear(y) + DaysBeforeMonth[m] + (IF m > 2 /\ IsLeap(y) THEN 1 ELSE 0)
       + d - 1) * 24 + h) * 60 + mi) * 60

\* parseDateString was given the text of a day of the calendar
DottedCall ==
    /\ call.fn = "parseDateString"
    /\ call.conforming
    /\ call.fields.d <= DaysInMonth(call.fields.y, call.fields.m)

\* C8: for D.M.YYYY H:MM parseDateString returns that day at H:MM local
\* time, and for D.M.YYYY without a time it returns that day at 00:00
C8_DottedDate ==
    DottedCall =>
        ret = SomeDate(D(LocalSeconds(call.fields.y, call.fields.m, call.fields.d,
                                      call.fields.h, call.fields.mi)))

\* the part of C8 that holds: the texts with a time
C8_WithTime ==
    (DottedCall /\ call.fields.time) =>
        ret = SomeDate(D(LocalSeconds(call.fields.y, call.fields.m, call.fields.d,
                                      call.fields.h, call.fields.mi)))

\* parseDateString was given 2.12.2025 and returned null
C8_Witness ==
    /\ call.fn = "parseDateString"
    /\ call.text = Str(<<"2", ".", "1", "2", ".", "2", "0", "2", "5">>)
    /\ ret.null

(***************************************************************************)
(* Calls of fetchUzhEvents: the API answers 200 with an events array.      *)
(***************************************************************************)

\* the most entries of the events array of a call
MaxCallEntries == 2

\* texts of dtstart and dtend: an integer, an integer followed by letters, a
\* number with a fraction, no number, and an integer beyond the time values
EpochTexts ==
    { <<"1", "0", "0", "0">>, <<"1", "0", "0", "0", "a", "b", "c">>, <<"1", "2", ".", "5">>, <<"a", "b", "c">>, <<"9", "9", "9", "9", "9", "9", "9", "9", "9", "9", "9", "9", "9", "9", "9", "9", "9">> }

UzhCallEntries ==
    {UzhEntry(Str(<<"1">>), Str(s), Str(<<"2", "0", "0", "0">>), Str(<<"T", "a", "l", "k">>), Undefined) : s \in EpochTexts}
    \cup {UzhEntry(Str(<<"2">>), Str(<<"5", "0", "0">>), Str(s), Str(<<"F", "o", "r", "u", "m">>), Str(<<>>)) :
            s \in EpochTexts}
    \cup { UzhEntry(Str(<<"3">>), Str(<<"1", "0", "0", "0">>), Str(<<"2", "0", "0", "0">>), Undefined, Undefined),
           UzhEntry(Str(<<"4">>), Undefined, Str(<<"2", "0", "0", "0">>), Str(<<"T", "a", "l", "k">>), Undefined),
           UzhEntry(Str(<<"5">>), Str(<<"1", "0", "0", "0">>), Str(<<"2", "0", "0", "0">>), Str(<<"W", "e", "b", "i", "n", "a", "r">>), Str(<<"1">>)),
           NullEntry }

\* fetchUzhEvents is called, the API answers with the entries, and the call
\* returns
FetchUzhEventsCall ==
    /\ call = NoCall
    /\ \E entries \in SeqsUpTo(UzhCallEntries, MaxCallEntries) :
          /\ call' = [fn |-> "fetchUzhEvents", entries |-> entries]
          /\ ret' = FetchUzhEvents(Ok([isNull |-> FALSE, entries |-> Array(entries)])).value
    /\ UNCHANGED <<aggVars, storage>>

SpecUzh == Init /\ [][FetchUzhEventsCall]_vars

\* what fetchUzhEvents returns for the entry alone
Alone(entry) == FetchUzhEvents(Ok([isNull |-> FALSE, entries |-> Array(<<entry>>)])).value

\* C6: an entry that the UZH adapter accepts appears in the output whatever
\* the other entries of the array are
C6_RecordIsolation ==
    call.fn = "fetchUzhEvents" =>
        \A i \in 1..Len(call.entries) :
            Alone(call.entries[i]) # <<>> =>
                \E j \in 1..Len(ret) : ret[j] = Alone(call.entries[i])[1]

\* the part of C6 that holds: in an array without a null entry, the output
\* is the accepted entries and nothing else
C6_WithoutNullEntries ==
    (call.fn = "fetchUzhEvents" /\ \A i \in 1..Len(call.entries) : ~call.entries[i].isNull) =>
        /\ \A i \in 1..Len(call.entries) :
              Alone(call.entries[i]) # <<>> =>
                  \E j \in 1..Len(ret) : ret[j] = Alone(call.entries[i])[1]
        /\ Len(ret) = Cardinality({i \in 1..Len(call.entries) : Alone(call.entries[i]) # <<>>})

\* an accepted entry followed by a null entry: the call returned no event
C6_Witness ==
    /\ call.fn = "fetchUzhEvents"
    /\ Len(call.entries) = 2
    /\ Alone(call.entries[1]) # <<>>
    /\ call.entries[2] = NullEntry
    /\ ret = <<>>

\* the text is an integer: decimal digits only
IntegerText(s) == s # <<>> /\ \A i \in 1..Len(s) : IsDigit(s[i])

\* the text is an integer that is a time value (at most 8.64e15; the texts
\* of the calls have at most 4 digits or 17)
IntegerInstant(s) == IntegerText(s) /\ Len(s) <= 15

\* the call gave one entry that has id, title, dtstart and dtend and is not
\* virtual
OneDatedEntry ==
    /\ call.fn = "fetchUzhEvents"
    /\ Len(call.entries) = 1
    /\ ~call.entries[1].isNull
    /\ Truthy(call.entries[1].id) /\ Truthy(call.entries[1].title)
    /\ Truthy(call.entries[1].dtstart) /\ Truthy(call.entries[1].dtend)
    /\ ~Truthy(call.entries[1].is_virtual)

\* C9: the entry is accepted exactly when dtstart and dtend are integers
\* that are time values, and the range of the event is then these instants
C9_EpochParsing ==
    OneDatedEntry =>
        /\ ret # <<>> <=> (IntegerInstant(call.entries[1].dtstart.s)
                           /\ IntegerInstant(call.entries[1].dtend.s))
        /\ ret # <<>> =>
              /\ ret[1].dti.ranges[1].from = D(DigitsValue(call.entries[1].dtstart.s, 0))
              /\ ret[1].dti.ranges[1].to = D(DigitsValue(call.entries[1].dtend.s, 0))

\* the part of C9 that holds: integers that are time values are accepted
\* and give these instants; a text without leading digits and an integer
\* beyond the time values make the entry be dropped
C9_IntegersRoundTrip ==
    OneDatedEntry =>
        /\ (IntegerInstant(call.entries[1].dtstart.s) /\ IntegerInstant(call.entries[1].dtend.s))
              => /\ Len(ret) = 1
                 /\ ret[1].dti.ranges[1].from = D(DigitsValue(call.entries[1].dtstart.s, 0))
                 /\ ret[1].dti.ranges[1].to = D(DigitsValue(call.entries[1].dtend.s, 0))
        /\ (\E s \in {call.entries[1].dtstart.s, call.entries[1].dtend.s} :
               ~IsDigit(s[1]) \/ (IntegerText(s) /\ ~IntegerInstant(s)))
              => ret = <<>>

\* the entry with dtstart 1000abc was accepted, with start 1000
C9_Witness ==
    /\ OneDatedEntry
    /\ call.entries[1].dtstart = Str(<<"1", "0", "0", "0", "a", "b", "c">>)
    /\ Len(ret) = 1
    /\ ret[1].dti.ranges[1].from = D(1000)

(***************************************************************************)
(* The food keywords (916-942) and the functions that search them.  An     *)
(* event given to these functions keeps, besides the fields of Event,      *)
(* hasContent (does event.content exist) and description                   *)
(* (event.content.description); title and description are strings,         *)
(* undefined or null.                                                      *)
(***************************************************************************)

FOOD_KEYWORDS ==
    [french |-> << <<"a", "p", "é", "r", "i", "t", "i", "f">>, <<"a", "p", "é", "r", "o">>, <<"c", "o", "l", "l", "a", "t", "i", "o", "n">>, <<"b", "u", "f", "f", "e", "t">>, <<"c", "o", "c", "k", "t", "a", "i", "l">>,
                   <<"d", "é", "g", "u", "s", "t", "a", "t", "i", "o", "n">>, <<"r", "e", "p", "a", "s">>, <<"d", "î", "n", "e", "r">>, <<"d", "é", "j", "e", "u", "n", "e", "r">>, <<"p", "e", "t", "i", "t", "-", "d", "é", "j", "e", "u", "n", "e", "r">>,
                   <<"c", "a", "f", "é">>, <<"v", "i", "n", " ", "d", "'", "h", "o", "n", "n", "e", "u", "r">>, <<"r", "é", "c", "e", "p", "t", "i", "o", "n">>, <<"p", "a", "u", "s", "e", "-", "c", "a", "f", "é">> >>,
     german |-> << <<"a", "p", "é", "r", "o">>, <<"a", "p", "e", "r", "i", "t", "i", "f">>, <<"i", "m", "b", "i", "s", "s">>, <<"b", "u", "f", "f", "e", "t">>, <<"c", "o", "c", "k", "t", "a", "i", "l">>,
                   <<"v", "e", "r", "k", "o", "s", "t", "u", "n", "g">>, <<"a", "b", "e", "n", "d", "e", "s", "s", "e", "n">>, <<"m", "i", "t", "t", "a", "g", "e", "s", "s", "e", "n">>, <<"f", "r", "ü", "h", "s", "t", "ü", "c", "k">>,
                   <<"k", "a", "f", "f", "e", "e">>, <<"e", "m", "p", "f", "a", "n", "g">>, <<"k", "a", "f", "f", "e", "e", "p", "a", "u", "s", "e">>, <<"e", "r", "f", "r", "i", "s", "c", "h", "u", "n", "g", "e", "n">>,
                   <<"v", "e", "r", "p", "f", "l", "e", "g", "u", "n", "g">>, <<"f", "i", "n", "g", "e", "r", "f", "o", "o", "d">>, <<"s", "n", "a", "c", "k", "s">>, <<"g", "e", "t", "r", "ä", "n", "k", "e">> >>,
     english |-> << <<"a", "p", "e", "r", "i", "t", "i", "f">>, <<"a", "p", "é", "r", "o">>, <<"r", "e", "f", "r", "e", "s", "h", "m", "e", "n", "t", "s">>, <<"b", "u", "f", "f", "e", "t">>, <<"c", "o", "c", "k", "t", "a", "i", "l">>,
                    <<"t", "a", "s", "t", "i", "n", "g">>, <<"f", "o", "o", "d">>, <<"d", "i", "n", "n", "e", "r">>, <<"l", "u", "n", "c", "h">>, <<"b", "r", "e", "a", "k", "f", "a", "s", "t">>, <<"c", "o", "f", "f", "e", "e">>,
                    <<"r", "e", "c", "e", "p", "t", "i", "o", "n">>, <<"c", "o", "f", "f", "e", "e", " ", "b", "r", "e", "a", "k">>, <<"s", "n", "a", "c", "k", "s">>, <<"c", "a", "t", "e", "r", "i", "n", "g">>,
                    <<"f", "i", "n", "g", "e", "r", " ", "f", "o", "o", "d">>, <<"d", "r", "i", "n", "k", "s">>, <<"b", "e", "v", "e", "r", "a", "g", "e", "s">>, <<"n", "e", "t", "w", "o", "r", "k", "i", "n", "g", " ", "l", "u", "n", "c", "h">>,
                    <<"w", "i", "n", "e", " ", "r", "e", "c", "e", "p", "t", "i", "o", "n">>, <<"l", "i", "g", "h", "t", " ", "r", "e", "f", "r", "e", "s", "h", "m", "e", "n", "t", "s">> >>,
     common |-> << >>]

\* Object.values(FOOD_KEYWORDS).flat()
AllKeywords ==
    FOOD_KEYWORDS.french \o FOOD_KEYWORDS.german \o FOOD_KEYWORDS.english \o FOOD_KEYWORDS.common

FoodEvent(id, source, hasContent, title, description) ==
    [id |-> id, source |-> source, hasContent |-> hasContent, title |-> title,
     description |-> description, dti |-> NoDti]

\* x?.toLowerCase() || ''
LowerOrEmpty(x) == IF x.t = "string" THEN ToLowerCase(x.s) ELSE <<>>

\* combinedText = `${title} ${description}`
CombinedText(event) ==
    LowerOrEmpty(event.title) \o <<" ">> \o LowerOrEmpty(event.description)

\* allKeywords.some(keyword => combinedText.includes(keyword.toLowerCase()))
SomeKeyword(combinedText) ==
    \E k \in 1..Len(AllKeywords) : Includes(combinedText, ToLowerCase(AllKeywords[k]))

\* the allow-list without VMP
AlwaysIncludedNoVmp(event) == event.source = "VIS" \/ event.source = "ESN"

\* event.source == 'VIS' || event.source == 'ESN' || event.source == 'VMP'
AlwaysIncluded(event) == event.source = "VIS" \/ event.source = "ESN" \/ event.source = "VMP"

\* the callback of events.filter (952-966); reading event.content.title of
\* an event without content throws a TypeError
FoodCallback(event) ==
    IF AlwaysIncluded(event) THEN Returned(TRUE)
    ELSE IF ~event.hasContent THEN Thrown
    ELSE Returned(SomeKeyword(CombinedText(event)))

\* filterEventsWithFood: an error thrown by the callback leaves the function
FilterEventsWithFood(events) ==
    IF \E i \in 1..Len(events) : FoodCallback(events[i]).thrown THEN Thrown
    ELSE Returned(SelectSeq(events, LAMBDA e : FoodCallback(e).value))

\* eventHasFood (998-1007)
EventHasFood(event) ==
    IF ~event.hasContent THEN Thrown ELSE Returned(SomeKeyword(CombinedText(event)))

\* the keyword whose first occurrence in the text is leftmost
GetFoodKeywordLeftmost(event) ==
    IF ~event.hasContent THEN Thrown
    ELSE LET text == CombinedText(event)
             At(k, p) == /\ p + Len(AllKeywords[k]) - 1 <= Len(text)
                         /\ SubSeq(text, p, p + Len(AllKeywords[k]) - 1)
                               = ToLowerCase(AllKeywords[k])
             hits == {h \in (1..Len(AllKeywords)) \X (1..Len(text)) : At(h[1], h[2])}
         IN  IF hits = {} THEN Returned(Null)
             ELSE Returned(Str(AllKeywords[
                     (CHOOSE h \in hits : \A g \in hits :
                         h[2] < g[2] \/ (h[2] = g[2] /\ h[1] <= g[1]))[1]]))

\* getFoodKeyword (1014-1027)
GetFoodKeyword(event) ==
    IF ~event.hasContent THEN Thrown
    ELSE IF SomeKeyword(CombinedText(event))
    THEN Returned(Str(AllKeywords[CHOOSE k \in 1..Len(AllKeywords) :
                        /\ Includes(CombinedText(event), ToLowerCase(AllKeywords[k]))
                        /\ \A j \in 1..(k - 1) :
                              ~Includes(CombinedText(event), ToLowerCase(AllKeywords[j]))]))
    ELSE Returned(Null)

(***************************************************************************)
(* Calls of the food functions.                                            *)
(***************************************************************************)

\* the titles and descriptions of the events given to the food functions
FoodTexts ==
    { <<Str(<<"A", "p", "é", "r", "o", " ", "R", "e", "c", "e", "p", "t", "i", "o", "n">>), Str(<<>>)>>,
      <<Str(<<"B", "o", "a", "r", "d", " ", "M", "e", "e", "t", "i", "n", "g">>), Str(<<>>)>>,
      <<Str(<<"A", "P", "É", "R", "O">>), Undefined>>,
      <<Str(<<"B", "o", "a", "r", "d", " ", "M", "e", "e", "t", "i", "n", "g">>), Str(<<"F", "r", "e", "e", " ", "D", "I", "N", "N", "E", "R">>)>>,
      <<Str(<<"V", "i", "n">>), Str(<<"d", "'", "h", "o", "n", "n", "e", "u", "r">>)>>,
      <<Undefined, Str(<<"K", "a", "f", "f", "e", "e">>)>>,
      <<Null, Null>>,
      <<Str(<<"F", "o", "o", "d", "p", "r", "i", "n", "t">>), Str(<<"T", "a", "l", "k">>)>>,
      <<Str(<<"L", "u", "n", "c", "h", ",", " ", "t", "h", "e", "n", " ", "K", "a", "f", "f", "e", "e">>), Str(<<>>)>>,
      <<Str(<<"C", "O", "F", "F", "E", "E", " ", "B", "R", "E", "A", "K">>), Undefined>>,
      <<Str(<<>>), Str(<<>>)>> }

PlainTexts ==
    { <<Str(<<"A", "p", "é", "r", "o", " ", "R", "e", "c", "e", "p", "t", "i", "o", "n">>), Str(<<>>)>>,
      <<Str(<<"B", "o", "a", "r", "d", " ", "M", "e", "e", "t", "i", "n", "g">>), Str(<<>>)>> }

FoodEvents ==
    {FoodEvent(Str(<<"1">>), "ETH", TRUE, tx[1], tx[2]) : tx \in FoodTexts}
    \cup {FoodEvent(Str(<<"1">>), Sources[a], TRUE, tx[1], tx[2]) : a \in 2..5, tx \in PlainTexts}
    \cup {FoodEvent(Str(<<"1">>), src, FALSE, Undefined, Undefined) : src \in {"ETH", "VIS"}}

\* filterEventsWithFood is called and returns or throws
FilterEventsWithFoodCall ==
    /\ call = NoCall
    /\ \E events \in SeqsUpTo(FoodEvents, MaxEvents) :
          /\ call' = [fn |-> "filterEventsWithFood", events |-> events]
          /\ ret' = FilterEventsWithFood(events)
    /\ UNCHANGED <<aggVars, storage>>

\* the card of an event (EventCard.vue 159-164) computes hasFood and
\* foodKeyword
EventCardFood ==
    /\ call = NoCall
    /\ \E event \in FoodEvents :
          /\ call' = [fn |-> "eventHasFood", event |-> event]
          /\ ret' = [hasFood |-> EventHasFood(event), foodKeyword |-> GetFoodKeyword(event)]
    /\ UNCHANGED <<aggVars, storage>>

NextFood == FilterEventsWithFoodCall \/ EventCardFood

SpecFood == Init /\ [][NextFood]_vars

\* event e is in the list filterEventsWithFood returned
FoodRetained(e) == ~ret.thrown /\ \E j \in 1..Len(ret.value) : ret.value[j] = e

\* the text of a title or description; undefined and null give no text
TextOf(x) == IF x.t = "string" THEN x.s ELSE <<>>

\* keyword occurs at position p of text, letters compared without case
OccursAt(text, p, keyword) ==
    /\ p + Len(keyword) - 1 <= Len(text)
    /\ \A j \in 1..Len(keyword) : ToLowerChar(text[p + j - 1]) = ToLowerChar(keyword[j])

\* the title, a blank and the description of e contain a keyword of the lexicon
MentionsFood(e) ==
    LET text == TextOf(e.title) \o <<" ">> \o TextOf(e.description)
    IN  \E lang \in {"french", "german", "english", "common"} :
          \E k \in 1..Len(FOOD_KEYWORDS[lang]) :
             \E p \in 1..Len(text) : OccursAt(text, p, FOOD_KEYWORDS[lang][k])

C12_WitnessAllowList ==
    /\ call.fn = "filterEventsWithFood"
    /\ Len(call.events) = 1
    /\ call.events[1].source = "VMP"
    /\ ~MentionsFood(call.events[1])
    /\ ret = Returned(call.events)

\* C13: an event is in the list filterEventsWithFood returns exactly when
\* eventHasFood finds a keyword in it
C13_FilterMatchesHighlight ==
    (call.fn = "filterEventsWithFood" /\ ~ret.thrown) =>
        \A i \in 1..Len(call.events) :
            FoodRetained(call.events[i]) <=> (EventHasFood(call.events[i]) = Returned(TRUE))

\* the part of C13 that holds: the two agree on every event whose source is
\* not VIS, ESN or VMP, and an event in which eventHasFood finds a keyword
\* is retained
C13_OutsideAllowList ==
    (call.fn = "filterEventsWithFood" /\ ~ret.thrown) =>
        \A i \in 1..Len(call.events) :
            LET e == call.events[i]
            IN  /\ e.source \notin {"VIS", "ESN", "VMP"} =>
                      (FoodRetained(e) <=> (EventHasFood(e) = Returned(TRUE)))
                /\ EventHasFood(e) = Returned(TRUE) => FoodRetained(e)

\* "Board Meeting" from VIS is retained, and neither eventHasFood nor
\* getFoodKeyword finds a keyword in it
C13_Witness ==
    /\ call.fn = "filterEventsWithFood"
    /\ Len(call.events) = 1
    /\ call.events[1].source = "VIS"
    /\ call.events[1].title = Str(<<"B", "o", "a", "r", "d", " ", "M", "e", "e", "t", "i", "n", "g">>)
    /\ ret = Returned(call.events)
    /\ EventHasFood(call.events[1]) = Returned(FALSE)
    /\ GetFoodKeyword(call.events[1]) = Returned(Null)

\* the card of an event: hasFood is true exactly when foodKeyword is a keyword
C13_CardAgrees ==
    call.fn = "eventHasFood" =>
        /\ ret.hasFood.thrown = ret.foodKeyword.thrown
        /\ ~ret.hasFood.thrown => (ret.hasFood.value <=> ret.foodKeyword.value # Null)

(***************************************************************************)
(* Calls of fetchVisEvents: the listing page answers 200 with cards.  A    *)
(* card has a title, a start and an end time and, when it has a price, a   *)
(* line that names it: price is [whole, cents], label the text before the  *)
(* amount.  The id of a card is its position on the page.                  *)
(***************************************************************************)

NoCardPrice == [shown |-> FALSE, label |-> <<>>, whole |-> 0, cents |-> 0]

CardPrices ==
    {NoCardPrice}
    \cup {[shown |-> TRUE, label |-> l, whole |-> a[1], cents |-> a[2]] :
            l \in {<<"C", "H", "F", " ">>, <<"P", "r", "i", "c", "e", ":", " ", "F", "r", ".", " ">>},
            a \in {<<0, 0>>, <<0, 50>>, <<1, 0>>, <<15, 0>>}}

\* a card with start and end time, and a card without end time
VisCards ==
    {[complete |-> TRUE, price |-> p] : p \in CardPrices}
    \cup {[complete |-> FALSE, price |-> NoCardPrice]}

\* the anchor of card c at position n of the page
VisCardAnchor(c, n) ==
    [href |-> VisWords.EnEvents \o Dec(n) \o <<"/">>,
     text |-> <<"\n", " ", " ", "W", "e", "l", "c", "o", "m", "e", " ", "P", "a", "r", "t", "y", "\n", " ", " ", "E", "v", "e", "n", "t", " ", "s", "t", "a", "r", "t", " ", "t", "i", "m", "e", "\n", " ", " ", "2", ".", "1", "2", ".", "2", "0", "2", "5", " ", "1", "6", ":", "0", "0", "\n">>
              \o (IF c.complete THEN <<" ", " ", "E", "v", "e", "n", "t", " ", "e", "n", "d", " ", "t", "i", "m", "e", "\n", " ", " ", "2", ".", "1", "2", ".", "2", "0", "2", "5", " ", "1", "8", ":", "0", "0", "\n">> ELSE <<>>)
              \o (IF c.price.shown
                  THEN <<" ", " ">> \o c.price.label \o Dec(c.price.whole) \o <<".">>
                       \o Pad2(c.price.cents) \o <<"\n">>
                  ELSE <<>>)]

\* fetchVisEvents is called, the page answers with the cards, and the call returns
FetchVisEventsCall ==
    /\ call = NoCall
    /\ \E cards \in SeqsUpTo(VisCards, MaxLinks) :
          /\ call' = [fn |-> "fetchVisEvents", cards |-> cards]
          /\ ret' = FetchVisEvents(Ok([n \in 1..Len(cards) |-> VisCardAnchor(cards[n], n)])).value
    /\ UNCHANGED <<aggVars, storage>>

SpecVis == Init /\ [][FetchVisEventsCall]_vars

\* the card at position n of the call is in the list the call returned
CardEmitted(n) == \E j \in 1..Len(ret) : ret[j].id = Str(Dec(n))

\* C14: a card whose price line names an amount greater than zero, whole or
\* fractional, gives no event in the list fetchVisEvents returns
C14_PaidExcluded ==
    call.fn = "fetchVisEvents" =>
        \A n \in 1..Len(call.cards) :
            (call.cards[n].price.whole > 0 \/ call.cards[n].price.cents > 0) => ~CardEmitted(n)

\* the part of C14 that holds: a card whose price is one franc or more is
\* not emitted, and a complete card without price or with price 0.00 is
C14_WholeFrancs ==
    call.fn = "fetchVisEvents" =>
        \A n \in 1..Len(call.cards) :
            /\ call.cards[n].price.whole > 0 => ~CardEmitted(n)
            /\ (call.cards[n].complete /\ call.cards[n].price.whole = 0) => CardEmitted(n)

\* a page whose only card costs CHF 0.50, and the card is emitted
C14_Witness ==
    /\ call.fn = "fetchVisEvents"
    /\ Len(call.cards) = 1
    /\ call.cards[1].price = [shown |-> TRUE, label |-> <<"C", "H", "F", " ">>, whole |-> 0, cents |-> 50]
    /\ Len(ret) = 1
    /\ ret[1].source = "VIS"
    /\ ret[1].id = Str(<<"1">>)

\* in an aggregation run the card "Ski Weekend" for CHF 15.00 is never in
\* the result
C14_PricedCardNotAggregated ==
    \A i \in 1..Len(aggResult) :
        aggResult[i].title # Str(<<"S", "k", "i", " ", "W", "e", "e", "k", "e", "n", "d">>)

(***************************************************************************)
(* A whole call of a detail-fetch adapter, from the listing to the         *)
(* returned list: the listing gives the ids, the detail loop (407-535,     *)
(* 648-754) takes them in order, and details[i] is the answer to the       *)
(* detail request of the i-th id.                                          *)
(***************************************************************************)

\* the loop over the ids: the events pushed, in order (events.push, 530 and
\* 749); an error that left an item would reach the outer catch
DetailLoop(outs) ==
    IF \E i \in 1..Len(outs) : outs[i].thrown THEN CatchReturnEmpty(Thrown)
    ELSE LET pushed == SelectSeq(outs, LAMBDA o : o.value.emit)
         IN  Returned([j \in 1..Len(pushed) |-> pushed[j].value.event])

FetchEsnEventsRun(listing, details) ==
    LET c == EsnListingBody(listing)
    IN  IF c.thrown THEN CatchReturnEmpty(c)
        ELSE DetailLoop([i \in 1..Len(c.value) |-> EsnItem(c.value[i], details[i])])

FetchVmpEventsRun(listing, details) ==
    LET c == VmpListingBody(listing)
    IN  IF c.thrown THEN CatchReturnEmpty(c)
        ELSE DetailLoop([i \in 1..Len(c.value) |-> VmpItem(c.value[i], details[i])])

(***************************************************************************)
(* Calls of fetchEsnEvents and fetchVmpEvents.  The listing names the ids  *)
(* 1, 2, ... (ESN) or e1, e2, ... (VMP); the detail request of each is     *)
(* answered by one of the kinds below.                                     *)
(***************************************************************************)

FailedKinds == {"reject", "status", "badbody"}

\* the fee rows of ESN pages: free, priced, free with card only, priced
\* below one franc, a price without the ESNcard labels, and no fee row
EsnFeeKinds == {"free", "paid", "cardfree", "cents", "plain", "nofee"}

EsnKinds == FailedKinds \cup EsnFeeKinds \cup {"nodate"}

EsnFeeText(kind) ==
    CASE kind = "paid" -> <<"w", "i", "t", "h", "o", "u", "t", " ", "E", "S", "N", "c", "a", "r", "d", ":", " ", "C", "H", "F", " ", "1", "5", ".", "0", "0", " ", "w", "i", "t", "h", " ", "E", "S", "N", "c", "a", "r", "d", ":", " ", "C", "H", "F", " ", "1", "0", ".", "0", "0">>
      [] kind = "cardfree" -> <<"w", "i", "t", "h", "o", "u", "t", " ", "E", "S", "N", "c", "a", "r", "d", ":", " ", "C", "H", "F", " ", "5", ".", "0", "0", " ", "w", "i", "t", "h", " ", "E", "S", "N", "c", "a", "r", "d", ":", " ", "C", "H", "F", " ", "0", ".", "0", "0">>
      [] kind = "cents" -> <<"w", "i", "t", "h", "o", "u", "t", " ", "E", "S", "N", "c", "a", "r", "d", ":", " ", "C", "H", "F", " ", "0", ".", "5", "0", " ", "w", "i", "t", "h", " ", "E", "S", "N", "c", "a", "r", "d", ":", " ", "C", "H", "F", " ", "0", ".", "5", "0">>
      [] kind = "plain" -> <<"C", "H", "F", " ", "2", "0", ".", "0", "0">>
      [] OTHER -> <<"w", "i", "t", "h", "o", "u", "t", " ", "E", "S", "N", "c", "a", "r", "d", ":", " ", "C", "H", "F", " ", "0", ".", "0", "0", " ", "w", "i", "t", "h", " ", "E", "S", "N", "c", "a", "r", "d", ":", " ", "C", "H", "F", " ", "0", ".", "0", "0">>

EsnAnswer(kind) ==
    CASE kind = "reject" -> Reject
      [] kind = "status" -> BadStatus
      [] kind = "badbody" -> BadBody
      [] OTHER ->
           Ok([heading |-> Undefined,
               rows |-> << << <<"K", "a", "r", "a", "o", "k", "e", " ", "N", "i", "g", "h", "t">> >> >>
                        \o (IF kind = "nodate" THEN << >>
                            ELSE << << <<"W", "h", "e", "n">>, <<"W", "e", "d", " ", "3", ".", " ", "D", "e", "c", "e", "m", "b", "e", "r", " ", "2", "0", "2", "5", " ", "2", "0", ":", "0", "0", " ", "-", " ", "2", "3", ":", "5", "5">> >> >>)
                        \o (IF kind = "nofee" THEN << >>
                            ELSE << << <<"E", "n", "t", "r", "a", "n", "c", "e", " ", "F", "e", "e">>, EsnFeeText(kind) >> >>)])

\* VMP pages: an event, an event whose text names a price, a page without date
VmpKinds == FailedKinds \cup {"good", "priced", "nodate"}

VmpAnswer(kind) ==
    CASE kind = "reject" -> Reject
      [] kind = "status" -> BadStatus
      [] kind = "badbody" -> BadBody
      [] OTHER ->
           Ok([heading |-> Str(<<"G", "l", "u", "e", "h", "w", "e", "i", "n">>),
               bodyText |-> <<"G", "l", "u", "e", "h", "w", "e", "i", "n", "\n">>
                            \o (IF kind = "nodate" THEN <<>>
                                ELSE <<"D", "e", "c", ".", " ", "3", ",", " ", "2", "0", "2", "5", ",", " ", "6", " ", "p", ".", "m", ".", "\n", "D", "u", "r", "a", "t", "i", "o", "n", ":", " ", "4", ":", "0", "0", ":", "0", "0", "\n">>)
                            \o (IF kind = "priced" THEN <<"P", "r", "i", "c", "e", ":", " ", "C", "H", "F", " ", "2", "0", ".", "0", "0", "\n">> ELSE <<>>)])

EsnItemId(n) == Dec(n)

VmpItemId(n) == <<"e">> \o Dec(n)

\* fetchEsnEvents is called and returns
FetchEsnEventsCall ==
    /\ call = NoCall
    /\ \E kinds \in SeqsUpTo(EsnKinds, MaxLinks) :
          /\ call' = [fn |-> "fetchEsnEvents", kinds |-> kinds,
                      ids |-> [n \in 1..Len(kinds) |-> EsnItemId(n)]]
          /\ ret' = FetchEsnEventsRun(
                       Ok([n \in 1..Len(kinds) |->
                             [href |-> EsnWords.EventSlash \o EsnItemId(n), text |-> <<>>]]),
                       [n \in 1..Len(kinds) |-> EsnAnswer(kinds[n])]).value
    /\ UNCHANGED <<aggVars, storage>>

\* fetchVmpEvents is called and returns
FetchVmpEventsCall ==
    /\ call = NoCall
    /\ \E kinds \in SeqsUpTo(VmpKinds, MaxLinks) :
          /\ call' = [fn |-> "fetchVmpEvents", kinds |-> kinds,
                      ids |-> [n \in 1..Len(kinds) |-> VmpItemId(n)]]
          /\ ret' = FetchVmpEventsRun(
                       Ok([n \in 1..Len(kinds) |->
                             [href |-> VmpWords.EnEvents \o VmpItemId(n) \o <<"/">>,
                              text |-> <<>>]]),
                       [n \in 1..Len(kinds) |-> VmpAnswer(kinds[n])]).value
    /\ UNCHANGED <<aggVars, storage>>

NextDetail == FetchEsnEventsCall \/ FetchVmpEventsCall

SpecDetail == Init /\ [][NextDetail]_vars

DetailCall == call.fn \in {"fetchEsnEvents", "fetchVmpEvents"}

\* the n-th item of the listing is in the list the call returned
ItemEmitted(n) == \E j \in 1..Len(ret) : ret[j].id = Str(call.ids[n])

\* C15: an item whose detail page states a price that is not zero is not in
\* the list the adapter returns
C15_PricedNeverEmitted ==
    DetailCall =>
        \A n \in 1..Len(call.kinds) :
            call.kinds[n] \in {"paid", "cardfree", "cents", "plain", "priced"} => ~ItemEmitted(n)

\* the part of C15 that holds: an ESN item whose fee row gives the prices
\* with the two ESNcard labels is emitted only if both prices are zero
C15_EsnLabelledPrices ==
    call.fn = "fetchEsnEvents" =>
        \A n \in 1..Len(call.kinds) :
            /\ call.kinds[n] \in {"paid", "cardfree", "cents"} => ~ItemEmitted(n)
            /\ call.kinds[n] = "free" => ItemEmitted(n)

\* a VMP page that names the price CHF 20.00, and its event is returned
C15_Witness ==
    /\ call.fn = "fetchVmpEvents"
    /\ call.kinds = <<"priced">>
    /\ Len(ret) = 1
    /\ ret[1].source = "VMP"
    /\ ret[1].id = Str(<<"e", "1">>)

\* an ESN page whose fee row reads "CHF 20.00", and its event is returned
C15_WitnessEsn ==
    /\ call.fn = "fetchEsnEvents"
    /\ call.kinds = <<"plain">>
    /\ Len(ret) = 1
    /\ ret[1].source = "ESN"

(***************************************************************************)
(* The registrations in localStorage (1080-1128).  The item is a text;     *)
(* JSON.parse and JSON.stringify are modelled on the texts of the model:   *)
(* null, {}, a number, a string, and an array of strings and numbers,      *)
(* written without blanks; the escapes of a string are \" and \\.  A       *)
(* parsed value is [t, s, items]: t is "null", "object", "number",         *)
(* "string" or "array", s the characters of a string or number, items the  *)
(* elements of an array.                                                   *)
(***************************************************************************)

JsonValue(t, s, items) == [t |-> t, s |-> s, items |-> items]

ParseFail == [ok |-> FALSE, s |-> <<>>, next |-> 0]

\* the characters of a string literal from position p (after the opening
\* quote) up to the closing quote
RECURSIVE ParseChars(_, _, _)
ParseChars(text, p, acc) ==
    IF p > Len(text) THEN ParseFail
    ELSE IF text[p] = "\"" THEN [ok |-> TRUE, s |-> acc, next |-> p + 1]
    ELSE IF text[p] = "\\"
    THEN IF p + 1 <= Len(text) /\ text[p + 1] \in {"\"", "\\"}
         THEN ParseChars(text, p + 2, Append(acc, text[p + 1]))
         ELSE ParseFail
    ELSE ParseChars(text, p + 1, Append(acc, text[p]))

\* the element of an array that starts at position p
ParseElement(text, p) ==
    IF p > Len(text) THEN [ok |-> FALSE, v |-> Null, next |-> 0]
    ELSE IF text[p] = "\""
    THEN Only({[ok |-> r.ok, v |-> Str(r.s), next |-> r.next] : r \in {ParseChars(text, p + 1, <<>>)}})
    ELSE IF IsDigit(text[p])
    THEN Only({[ok |-> TRUE, v |-> [t |-> "number", s |-> SubSeq(text, p, p + n - 1)], next |-> p + n] :
               n \in {RunLen(text, p, "\\d", FALSE, Inf)}})
    ELSE [ok |-> FALSE, v |-> Null, next |-> 0]

\* the elements of an array from position p (the start of an element)
RECURSIVE ParseItems(_, _, _)
ParseItems(text, p, acc) ==
    Only({IF ~e.ok \/ e.next > Len(text) THEN [ok |-> FALSE, items |-> <<>>, next |-> 0]
          ELSE IF text[e.next] = "]" THEN [ok |-> TRUE, items |-> Append(acc, e.v), next |-> e.next + 1]
          ELSE IF text[e.next] = "," THEN ParseItems(text, e.next + 1, Append(acc, e.v))
          ELSE [ok |-> FALSE, items |-> <<>>, next |-> 0] :
          e \in {ParseElement(text, p)}})

\* JSON.parse: a SyntaxError is thrown for a text that is no JSON
JsonParse(text) ==
    IF text = <<"n", "u", "l", "l">> THEN Returned(JsonValue("null", <<>>, <<>>))
    ELSE IF text = <<"{", "}">> THEN Returned(JsonValue("object", <<>>, <<>>))
    ELSE IF text = <<"[", "]">> THEN Returned(JsonValue("array", <<>>, <<>>))
    ELSE IF text = <<>> THEN Thrown
    ELSE IF text[1] = "["
    THEN Only({IF r.ok /\ r.next = Len(text) + 1 THEN Returned(JsonValue("array", <<>>, r.items))
               ELSE Thrown : r \in {ParseItems(text, 2, <<>>)}})
    ELSE Only({IF e.ok /\ e.next = Len(text) + 1 THEN Returned(JsonValue(e.v.t, e.v.s, <<>>))
               ELSE Thrown : e \in {ParseElement(text, 1)}})

\* the text of a string: quotes and backslashes are escaped
RECURSIVE Escaped(_)
Escaped(s) ==
    IF s = <<>> THEN <<>>
    ELSE (IF Head(s) \in {"\"", "\\"} THEN <<"\\", Head(s)>> ELSE <<Head(s)>>) \o Escaped(Tail(s))

\* the text of an element of an array
ElementText(v) == IF v.t = "string" THEN <<"\"">> \o Escaped(v.s) \o <<"\"">> ELSE v.s

RECURSIVE JoinItems(_)
JoinItems(items) ==
    IF items = <<>> THEN <<>>
    ELSE IF Len(items) = 1 THEN ElementText(items[1])
    ELSE ElementText(items[1]) \o <<",">> \o JoinItems(Tail(items))

\* JSON.stringify of an array
JsonStringify(items) == <<"[">> \o JoinItems(items) \o <<"]">>

\* localStorage.getItem('ethEventRegistrations') || '[]'
ItemOrEmptyArray(item) == IF item.present /\ item.text # <<>> THEN item.text ELSE <<"[", "]">>

\* a test of the first element only
RegistrationsIncludesFirst(registrations, eventId) ==
    CASE registrations.t = "array" ->
            Returned(registrations.items # <<>> /\ registrations.items[1] = Str(eventId))
      [] registrations.t = "string" -> Returned(Includes(registrations.s, eventId))
      [] OTHER -> Thrown

\* registrations.includes(eventId): Array.prototype.includes for an array,
\* String.prototype.includes for a string, a TypeError for any other value
RegistrationsIncludes(registrations, eventId) ==
    CASE registrations.t = "array" ->
            Returned(\E i \in 1..Len(registrations.items) : registrations.items[i] = Str(eventId))
      [] registrations.t = "string" -> Returned(Includes(registrations.s, eventId))
      [] OTHER -> Thrown

\* the try block of isUserRegistered (1082-1083)
IsUserRegisteredBody(item, eventId) ==
    LET parsed == JsonParse(ItemOrEmptyArray(item))
    IN  IF parsed.thrown THEN Thrown ELSE RegistrationsIncludes(parsed.value, eventId)

\* isUserRegistered: the catch clause returns false
IsUserRegistered(item, eventId) ==
    LET c == IsUserRegisteredBody(item, eventId)
    IN  IF c.thrown THEN FALSE ELSE c.value

\* what a call of toggleUserRegistration leaves: the stored item and the
\* returned value
Toggled(item, value) == [item |-> item, value |-> value]

SetItem(text) == [present |-> TRUE, text |-> text]

\* the removal that stores the list it read
RemoveKeepsList(registrations, eventId) == registrations.items

\* registrations.filter(id => id !== eventId)
RemoveRegistration(registrations, eventId) ==
    SelectSeq(registrations.items, LAMBDA v : v # Str(eventId))

\* the try block of toggleUserRegistration (1097-1110); filter and push are
\* methods of arrays only, so a string gives a TypeError
ToggleUserRegistrationBody(item, eventId) ==
    LET parsed == JsonParse(ItemOrEmptyArray(item))
        isRegistered == RegistrationsIncludes(parsed.value, eventId)
    IN  IF parsed.thrown THEN Thrown
        ELSE IF isRegistered.thrown THEN Thrown
        ELSE IF parsed.value.t # "array" THEN Thrown
        ELSE IF isRegistered.value
        THEN Returned(Toggled(SetItem(JsonStringify(RemoveRegistration(parsed.value, eventId))),
                              FALSE))
        ELSE Returned(Toggled(SetItem(JsonStringify(Append(parsed.value.items, Str(eventId)))),
                              TRUE))

\* toggleUserRegistration: the catch clause returns false
ToggleUserRegistration(item, eventId) ==
    LET c == ToggleUserRegistrationBody(item, eventId)
    IN  IF c.thrown THEN Toggled(item, FALSE) ELSE c.value

\* getUserRegistrations (1121-1128): the parsed value, or [] from the catch
GetUserRegistrations(item) ==
    LET c == JsonParse(ItemOrEmptyArray(item))
    IN  IF c.thrown THEN JsonValue("array", <<>>, <<>>) ELSE c.value

(***************************************************************************)
(* Calls of the registration functions.  The browser may hold an item      *)
(* from an earlier session when the first call is made.  call.log keeps    *)
(* the calls made so far, each with the item before and after it, and ret  *)
(* the values they returned, in the same order.                            *)
(***************************************************************************)

\* the most calls of a run
MaxCalls == 4

\* the event ids: "1" and a"b
RegIds == { <<"1">>, <<"a", "\"", "b">> }

\* the texts the item may hold at the start: the empty text, arrays, a text
\* that is no JSON, and JSON values that are no arrays
FoundTexts ==
    { <<>>, <<"[", "]">>, <<"[", "\"", "2", "\"", "]">>,
      <<"[", "\"", "2", "\"", ",", "\"", "3", "\"", "]">>,
      <<"[", "1", "]">>,
      <<"[">>, <<"{", "}">>, <<"n", "u", "l", "l">>, <<"5">>, <<"\"", "1", "2", "\"">> }

RegLog == IF call = NoCall THEN <<>> ELSE call.log

RegRets == IF call = NoCall THEN <<>> ELSE ret

Logged(fn, eventId, after) ==
    [fn |-> "registrations",
     log |-> Append(RegLog, [fn |-> fn, eventId |-> eventId, before |-> storage, after |-> after])]

\* the item left by an earlier session
StorageFound ==
    /\ call = NoCall
    /\ storage = NoItem
    /\ \E text \in FoundTexts : storage' = SetItem(text)
    /\ UNCHANGED <<aggVars, call, ret>>

IsUserRegisteredCall ==
    /\ Len(RegLog) < MaxCalls
    /\ \E eventId \in RegIds :
          /\ call' = Logged("isUserRegistered", eventId, storage)
          /\ ret' = Append(RegRets, IsUserRegistered(storage, eventId))
    /\ UNCHANGED <<aggVars, storage>>

ToggleUserRegistrationCall ==
    /\ Len(RegLog) < MaxCalls
    /\ \E eventId \in RegIds :
          LET t == ToggleUserRegistration(storage, eventId)
          IN  /\ call' = Logged("toggleUserRegistration", eventId, t.item)
              /\ ret' = Append(RegRets, t.value)
              /\ storage' = t.item
    /\ UNCHANGED aggVars

GetUserRegistrationsCall ==
    /\ Len(RegLog) < MaxCalls
    /\ call' = Logged("getUserRegistrations", <<>>, storage)
    /\ ret' = Append(RegRets, GetUserRegistrations(storage))
    /\ UNCHANGED <<aggVars, storage>>

NextReg ==
    \/ StorageFound
    \/ IsUserRegisteredCall
    \/ ToggleUserRegistrationCall
    \/ GetUserRegistrationsCall

SpecReg == Init /\ [][NextReg]_vars

\* the item holds an array, and eventId is not one of its elements
ArrayWithout(item, eventId) ==
    /\ item.present
    /\ item.text # <<>>
    /\ item.text[1] = "["
    /\ ~JsonParse(item.text).thrown
    /\ \A i \in 1..Len(JsonParse(item.text).value.items) :
          JsonParse(item.text).value.items[i] # Str(eventId)

\* the k-th call is fn(eventId)
IsCall(k, fn, eventId) ==
    k <= Len(RegLog) /\ RegLog[k].fn = fn /\ RegLog[k].eventId = eventId

\* C16: toggleUserRegistration(id) on a stored array without id returns
\* true and isUserRegistered(id) is then true; the next toggle of id returns
\* false, isUserRegistered(id) is then false, and the stored list is the
\* original list again
C16_ToggleRoundTrip ==
    \A k \in 1..Len(RegLog) :
        (RegLog[k].fn = "toggleUserRegistration" /\ ArrayWithout(RegLog[k].before, RegLog[k].eventId)) =>
            LET id == RegLog[k].eventId
            IN  /\ ret[k] = TRUE
                /\ IsCall(k + 1, "isUserRegistered", id) => ret[k + 1] = TRUE
                /\ \A m \in (k + 1)..Len(RegLog) :
                      (/\ IsCall(m, "toggleUserRegistration", id)
                       /\ \A j \in (k + 1)..(m - 1) : RegLog[j].fn # "toggleUserRegistration") =>
                          /\ ret[m] = FALSE
                          /\ JsonParse(RegLog[m].after.text) = JsonParse(RegLog[k].before.text)
                          /\ IsCall(m + 1, "isUserRegistered", id) => ret[m + 1] = FALSE

\* toggle, isUserRegistered, toggle, isUserRegistered of a"b on the stored
\* list ["2","3"], which is stored again at the end
C16_Witness ==
    /\ Len(RegLog) = 4
    /\ RegLog[1].before = SetItem(<<"[", "\"", "2", "\"", ",", "\"", "3", "\"", "]">>)
    /\ IsCall(1, "toggleUserRegistration", <<"a", "\"", "b">>)
    /\ IsCall(2, "isUserRegistered", <<"a", "\"", "b">>)
    /\ IsCall(3, "toggleUserRegistration", <<"a", "\"", "b">>)
    /\ IsCall(4, "isUserRegistered", <<"a", "\"", "b">>)
    /\ ret = <<TRUE, TRUE, FALSE, FALSE>>
    /\ storage = RegLog[1].before

\* the item is missing, is no JSON, or is JSON that is no array
Corrupt(item) ==
    \/ ~item.present
    \/ JsonParse(item.text).thrown
    \/ JsonParse(item.text).value.t # "array"

EmptyList == JsonValue("array", <<>>, <<>>)

\* C17: on a missing or corrupt item isUserRegistered returns false,
\* getUserRegistrations returns an empty list, and toggleUserRegistration
\* returns true and leaves the id registered
C17_CorruptAsEmpty ==
    \A k \in 1..Len(RegLog) :
        Corrupt(RegLog[k].before) =>
            /\ RegLog[k].fn = "isUserRegistered" => ret[k] = FALSE
            /\ RegLog[k].fn = "getUserRegistrations" => ret[k] = EmptyList
            /\ RegLog[k].fn = "toggleUserRegistration" =>
                  /\ ret[k] = TRUE
                  /\ IsUserRegistered(RegLog[k].after, RegLog[k].eventId)

\* the part of C17 that holds: a missing item and an empty text are an
\* empty list for the three functions, and a text that is no JSON is one
\* for isUserRegistered and getUserRegistrations
C17_MissingAsEmpty ==
    \A k \in 1..Len(RegLog) :
        LET b == RegLog[k].before
        IN  /\ (~b.present \/ b.text = <<>>) =>
                  /\ RegLog[k].fn = "isUserRegistered" => ret[k] = FALSE
                  /\ RegLog[k].fn = "getUserRegistrations" => ret[k] = EmptyList
                  /\ RegLog[k].fn = "toggleUserRegistration" =>
                        /\ ret[k] = TRUE
                        /\ RegLog[k].after.text = JsonStringify(<<Str(RegLog[k].eventId)>>)
            /\ (b.present /\ JsonParse(b.text).thrown) =>
                  /\ RegLog[k].fn = "isUserRegistered" => ret[k] = FALSE
                  /\ RegLog[k].fn = "getUserRegistrations" => ret[k] = EmptyList

\* the item is the text "[", toggleUserRegistration("1") returned false and
\* left the item as it was, and isUserRegistered("1") is false afterwards
C17_Witness ==
    /\ Len(RegLog) = 2
    /\ RegLog[1].before = SetItem(<<"[">>)
    /\ IsCall(1, "toggleUserRegistration", <<"1">>)
    /\ IsCall(2, "isUserRegistered", <<"1">>)
    /\ ret = <<FALSE, FALSE>>
    /\ storage = SetItem(<<"[">>)

\* the item is the JSON text "12" (a string): isUserRegistered("1") is true
\* and getUserRegistrations returns the string
C17_WitnessString ==
    /\ Len(RegLog) = 2
    /\ RegLog[1].before = SetItem(<<"\"", "1", "2", "\"">>)
    /\ IsCall(1, "isUserRegistered", <<"1">>)
    /\ RegLog[2].fn = "getUserRegistrations"
    /\ ret[1] = TRUE
    /\ ret[2] = JsonValue("string", <<"1", "2">>, <<>>)

(***************************************************************************)
(* The detail requests of an aggregation run                               *)
(***************************************************************************)

DetailFetchAdapters == {"ESN", "VMP"}

\* C18: a detail-fetch adapter has at most one detail request outstanding,
\* the one of the first id of the listing that has not been processed, and
\* none while its listing request is outstanding or after it returned
C18_OneDetailAtATime ==
    \A a \in DetailFetchAdapters :
        /\ Cardinality(task[a].outstanding) <= 1
        /\ task[a].pc = "detail" => task[a].outstanding = {Head(task[a].queue)}
        /\ task[a].pc # "detail" => task[a].outstanding = {}

\* C18, the order: a step of the detail loop takes the ids one by one in
\* the order of the listing
C18_ListingOrder ==
    [][\A a \in DetailFetchAdapters :
          (task[a].pc = "detail" /\ task'[a] # task[a]) =>
              \/ task'[a].pc = "detail" /\ task'[a].queue = Tail(task[a].queue)
              \/ task'[a].pc = "done" /\ Len(task[a].queue) = 1]_vars

\* the ESN listing named two ids, the first has been fetched and emitted,
\* and the request of the second is the only one outstanding
C18_Witness ==
    /\ task["ESN"].pc = "detail"
    /\ Len(task["ESN"].events) = 1
    /\ Len(task["ESN"].queue) = 1
    /\ task["ESN"].outstanding = {<<"8">>}
    /\ task["ESN"].events[1].id = Str(<<"7">>)

\* the position in the listing of the j-th event of the returned list
ItemOf(j) == CHOOSE n \in 1..Len(call.ids) : ret[j].id = Str(call.ids[n])

\* C19: an item whose detail request is rejected, answered with a status
\* that is not ok, or answered with a body that cannot be read or a page
\* without date is skipped alone: every complete free item of the listing
\* is in the returned list, in the order of the listing
C19_ItemIsolation ==
    DetailCall =>
        /\ \A n \in 1..Len(call.kinds) :
              /\ call.kinds[n] \in FailedKinds \cup {"nodate"} => ~ItemEmitted(n)
              /\ call.kinds[n] \in {"free", "good"} => ItemEmitted(n)
        /\ \A j \in 1..Len(ret) : \E n \in 1..Len(call.ids) : ret[j].id = Str(call.ids[n])
        /\ \A i, j \in 1..Len(ret) : i < j => ItemOf(i) < ItemOf(j)

\* the request of the first ESN item is rejected and the second item is
\* returned
C19_Witness ==
    /\ call.fn = "fetchEsnEvents"
    /\ call.kinds = <<"reject", "free">>
    /\ Len(ret) = 1
    /\ ret[1].id = Str(<<"2">>)

\* the body of the first VMP page cannot be read and the second item is
\* returned
C19_WitnessVmp ==
    /\ call.fn = "fetchVmpEvents"
    /\ call.kinds = <<"badbody", "good">>
    /\ Len(ret) = 1
    /\ ret[1].id = Str(<<"e", "2">>)

(***************************************************************************)
(* Termination of an aggregation run.  The transport settles every         *)
(* request (with the answer or, at its timeout, with a rejection) and the  *)
(* event loop runs every continuation that is ready: each step of the run  *)
(* that stays possible is eventually taken.                                *)
(***************************************************************************)

Fairness ==
    /\ WF_vars(EthResponse)
    /\ WF_vars(UzhResponse)
    /\ WF_vars(VisResponse)
    /\ WF_vars(EsnListingResponse)
    /\ WF_vars(EsnDetailResponse)
    /\ WF_vars(VmpListingResponse)
    /\ WF_vars(VmpDetailResponse)
    /\ WF_vars(FetchEventsReturn)

SpecLive == Spec /\ Fairness

C20_RejectedIsEmpty ==
    \A a \in SourceSet :
        (task[a].pc = "done" /\ task[a].net = "reject") => task[a].result = Returned(<<>>)

NoOrganizers == [present |-> FALSE, hasArray |-> FALSE, ou |-> <<>>]

Organizers(hasArray, ou) == [present |-> TRUE, hasArray |-> hasArray, ou |-> ou]

Organizer(nameShort, name) == [nameShort |-> nameShort, name |-> name]

NoClassification == [present |-> FALSE, calDesc |-> Undefined]

Classification(calDesc) == [present |-> TRUE, calDesc |-> calDesc]

GroupEvent(id, organizers, classification) ==
    [id |-> id, organizers |-> organizers, classification |-> classification]

Other == <<"O", "t", "h", "e", "r">>

\* names every object inherits, of which the inputs use the first
ObjectPrototypeKeys == { <<"c", "o", "n", "s", "t", "r", "u", "c", "t", "o", "r">>, <<"t", "o", "S", "t", "r", "i", "n", "g">>, <<"v", "a", "l", "u", "e", "O", "f">>, <<"_", "_", "p", "r", "o", "t", "o", "_", "_">> }

\* the label as C21 derives it: the calendar label is tried whenever the
\* short name is missing
SourceLabelShortThenCalendar(event) ==
    IF /\ event.organizers.present /\ event.organizers.hasArray
       /\ Len(event.organizers.ou) > 0
       /\ Truthy(event.organizers.ou[1].nameShort)
    THEN event.organizers.ou[1].nameShort.s
    ELSE IF event.classification.present /\ Truthy(event.classification.calDesc)
         THEN event.classification.calDesc.s
         ELSE Other

\* lines 835-841: the value of source for one event
SourceLabel(event) ==
    IF /\ event.organizers.present /\ event.organizers.hasArray
       /\ Len(event.organizers.ou) > 0
    THEN IF Truthy(event.organizers.ou[1].nameShort)
         THEN event.organizers.ou[1].nameShort.s
         ELSE IF Truthy(event.organizers.ou[1].name)
              THEN event.organizers.ou[1].name.s
              ELSE Other
    ELSE IF event.classification.present /\ Truthy(event.classification.calDesc)
         THEN event.classification.calDesc.s
         ELSE Other

\* lines 843-846: grouped[source] is created when missing, then pushed to
GroupPush(grouped, source, event) ==
    IF source \in DOMAIN grouped
    THEN [grouped EXCEPT ![source] = Append(@, event)]
    ELSE [k \in DOMAIN grouped \cup {source} |->
             IF k = source THEN <<event>> ELSE grouped[k]]

RECURSIVE GroupLoop(_, _, _)
GroupLoop(events, i, grouped) ==
    IF i > Len(events) THEN Returned(grouped)
    ELSE IF SourceLabel(events[i]) \in ObjectPrototypeKeys
         THEN Thrown
         ELSE GroupLoop(events, i + 1,
                        GroupPush(grouped, SourceLabel(events[i]), events[i]))

GroupEventsBySource(events) == GroupLoop(events, 1, [k \in {} |-> <<>>])

GroupOrganizers ==
    { NoOrganizers, Organizers(FALSE, <<>>), Organizers(TRUE, <<>>) }
    \cup { Organizers(TRUE, <<Organizer(ns, nm)>>) :
              ns \in {Str(<<"V", "I", "S">>), Undefined, Str(<<>>)},
              nm \in {Str(<<"V", "e", "r", "e", "i", "n">>), Undefined} }
    \cup { Organizers(TRUE, <<Organizer(Str(<<"c", "o", "n", "s", "t", "r", "u", "c", "t", "o", "r">>), Undefined)>>),
           Organizers(TRUE, <<Organizer(Undefined, Undefined),
                              Organizer(Str(<<"V", "I", "S">>), Str(<<"V", "e", "r", "e", "i", "n">>))>>) }

GroupClassifications ==
    { NoClassification, Classification(Undefined), Classification(Str(<<"K", "a", "l", "e", "n", "d", "e", "r">>)) }

GroupEvents(n) ==
    { GroupEvent(Dec(n), o, c) : o \in GroupOrganizers, c \in GroupClassifications }

\* groupEventsBySource is called on a list of events with ids 1, 2, ...
GroupEventsBySourceCall ==
    /\ call = NoCall
    /\ \E len \in 0..MaxEvents :
          \E events \in [1..len -> UNION {GroupEvents(n) : n \in 1..MaxEvents}] :
             /\ \A i \in 1..len : events[i].id = Dec(i)
             /\ call' = [fn |-> "groupEventsBySource", events |-> events]
             /\ ret' = GroupEventsBySource(events)
    /\ UNCHANGED <<aggVars, storage>>

SpecGroup == Init /\ [][GroupEventsBySourceCall]_vars

GroupCall == call # NoCall /\ call.fn = "groupEventsBySource"

\* the event is in the list filed under the label
FiledUnder(event, label) ==
    /\ label \in DOMAIN ret.value
    /\ \E j \in 1..Len(ret.value[label]) : ret.value[label][j] = event

\* C21: every event is filed under the organizer short name if present,
\* else under the calendar label of its classification if present, else
\* under "Other"
C21_SourceLabel ==
    (GroupCall /\ ~ret.thrown) =>
        \A i \in 1..Len(call.events) :
            FiledUnder(call.events[i], SourceLabelShortThenCalendar(call.events[i]))

\* the event has a first organizer
HasOrganizer(e) ==
    e.organizers.present /\ e.organizers.hasArray /\ Len(e.organizers.ou) > 0

\* the label of e: with a first organizer its short name, else its name,
\* else "Other"; without organizers the calendar label, else "Other"
LabelIs(e, label) ==
    \/ /\ HasOrganizer(e)
       /\ Truthy(e.organizers.ou[1].nameShort)
       /\ label = e.organizers.ou[1].nameShort.s
    \/ /\ HasOrganizer(e)
       /\ ~Truthy(e.organizers.ou[1].nameShort)
       /\ Truthy(e.organizers.ou[1].name)
       /\ label = e.organizers.ou[1].name.s
    \/ /\ HasOrganizer(e)
       /\ ~Truthy(e.organizers.ou[1].nameShort)
       /\ ~Truthy(e.organizers.ou[1].name)
       /\ label = Other
    \/ /\ ~HasOrganizer(e)
       /\ e.classification.present
       /\ Truthy(e.classification.calDesc)
       /\ label = e.classification.calDesc.s
    \/ /\ ~HasOrganizer(e)
       /\ ~(e.classification.present /\ Truthy(e.classification.calDesc))
       /\ label = Other

\* C21 amended: an event with a first organizer is filed under the
\* organizer's short name, else under the organizer's name, else under
\* "Other"; the calendar label is used only for an event without
\* organizers, "Other" when that is missing too.  Every event is filed
\* under exactly that one label, each list in the order of the events
\* given; the call throws exactly when a label is a name that every object
\* inherits
C21_OrganizerThenName ==
    GroupCall =>
        /\ ret.thrown <=>
              \E i \in 1..Len(call.events) : \E label \in ObjectPrototypeKeys :
                 LabelIs(call.events[i], label)
        /\ ~ret.thrown =>
              /\ \A i \in 1..Len(call.events) :
                    /\ \E label \in DOMAIN ret.value : FiledUnder(call.events[i], label)
                    /\ \A label \in DOMAIN ret.value :
                          FiledUnder(call.events[i], label) <=>
                             LabelIs(call.events[i], label)
              /\ \A label \in DOMAIN ret.value :
                    /\ ret.value[label] # <<>>
                    /\ \A j \in 1..Len(ret.value[label]) :
                          \E i \in 1..Len(call.events) :
                             call.events[i] = ret.value[label][j]
                    /\ \A j, k \in 1..Len(ret.value[label]) :
                          j < k => \E a, b \in 1..Len(call.events) :
                                      /\ a < b
                                      /\ call.events[a] = ret.value[label][j]
                                      /\ call.events[b] = ret.value[label][k]

\* an event whose first organizer has no short name and whose classification
\* has a calendar label has been grouped
C21_Witness ==
    /\ GroupCall /\ ~ret.thrown
    /\ \E i \in 1..Len(call.events) :
          /\ call.events[i].organizers.present
          /\ Len(call.events[i].organizers.ou) > 0
          /\ ~Truthy(call.events[i].organizers.ou[1].nameShort)
          /\ Truthy(call.events[i].classification.calDesc)
          /\ FiledUnder(call.events[i], <<"V", "e", "r", "e", "i", "n">>)
          /\ ~FiledUnder(call.events[i], call.events[i].classification.calDesc.s)

\* a label that the empty object inherits makes the call throw
C21_WitnessInherited == GroupCall /\ ret.thrown

(***************************************************************************)
(* getNextEventDate (894-911) and the computed list chronologicalEvents    *)
(* of the dashboard (part_000 173-185, part_001 144-154).  A next date is  *)
(* [null, t]: null, or the Date with time value t.  The clock is read as   *)
(* one instant for all the comparisons of one sort.  The list sorted is    *)
(* this.events, or the events gathered from the selected groups.           *)
(***************************************************************************)

NoNextDate == [null |-> TRUE, t |-> 0]

NextDate(t) == [null |-> FALSE, t |-> t]

\* the time values of upcomingEvents (902-905)
UpcomingTimes(event, now) ==
    { event.dti.ranges[k].from.t : k \in { j \in 1..Len(event.dti.ranges) :
                                             DateGe(event.dti.ranges[j].from, now) } }

\* the start of the first range, whatever the clock
GetNextEventDateFirstRange(event, clock) ==
    IF ~event.dti.present THEN NoNextDate
    ELSE IF event.dti.hasRanges /\ event.dti.ranges # <<>>
                                /\ event.dti.ranges[1].from.valid
    THEN NextDate(event.dti.ranges[1].from.t)
    ELSE NoNextDate

GetNextEventDate(event, clock) ==
    IF ~event.dti.present THEN NoNextDate
    ELSE IF event.dti.hasRanges
    THEN IF UpcomingTimes(event, D(clock)) # {}
         THEN NextDate(CHOOSE t \in UpcomingTimes(event, D(clock)) :
                          \A u \in UpcomingTimes(event, D(clock)) : t <= u)
         ELSE NoNextDate
    ELSE NoNextDate

\* a comparator that puts the events without a next date first
CompareNullFirst(a, b, clock) ==
    IF GetNextEventDate(a, clock).null /\ GetNextEventDate(b, clock).null THEN 0
    ELSE IF GetNextEventDate(a, clock).null THEN -1
    ELSE IF GetNextEventDate(b, clock).null THEN 1
    ELSE GetNextEventDate(a, clock).t - GetNextEventDate(b, clock).t

\* the comparator given to sort
CompareEvents(a, b, clock) ==
    IF GetNextEventDate(a, clock).null /\ GetNextEventDate(b, clock).null THEN 0
    ELSE IF GetNextEventDate(a, clock).null THEN 1
    ELSE IF GetNextEventDate(b, clock).null THEN -1
    ELSE GetNextEventDate(a, clock).t - GetNextEventDate(b, clock).t

\* x is put behind every element of the sorted list that does not compare
\* greater than x
RECURSIVE SortInsert(_, _, _)
SortInsert(sorted, x, clock) ==
    IF sorted = <<>> THEN <<x>>
    ELSE IF CompareEvents(Head(sorted), x, clock) > 0 THEN <<x>> \o sorted
    ELSE <<Head(sorted)>> \o SortInsert(Tail(sorted), x, clock)

\* Array.prototype.sort with the comparator: a stable sort
RECURSIVE SortEvents(_, _, _)
SortEvents(events, sorted, clock) ==
    IF events = <<>> THEN sorted
    ELSE SortEvents(Tail(events), SortInsert(sorted, Head(events), clock), clock)

ChronologicalEvents(events, clock) == SortEvents(events, <<>>, clock)

\* the most events of a list that is sorted
MaxSorted == 3

SortCases ==
    {[k |-> "range", off |-> o] : o \in {-1, 0, 1, 3600}}
    \cup {[k |-> c, off |-> 0] : c \in {"nodti", "empty", "invalid", "opening", "two", "unsorted"}}

\* the event of case c with id n: those of the filter, or an event with
\* two future ranges of which the later comes first
SortEvent(c, clock, n) ==
    IF c.k = "unsorted"
    THEN Event(Str(<<DigitChars[n + 1]>>), "ETH", Str(<<"T", "a", "l", "k">>),
               [SingleRange(InvalidDate, InvalidDate) EXCEPT
                   !.ranges = << [from |-> D(clock + 7200), to |-> D(clock + 9000)],
                                 [from |-> D(clock + 1), to |-> D(clock + 60)] >>])
    ELSE FilterEvent(c, clock, n)

\* the dashboard computes chronologicalEvents
ChronologicalEventsCall ==
    /\ call = NoCall
    /\ \E clock \in Clocks, cases \in SeqsUpTo(SortCases, MaxSorted) :
          LET events == [i \in 1..Len(cases) |-> SortEvent(cases[i], clock, i)]
          IN  /\ call' = [fn |-> "chronologicalEvents", clock |-> clock, events |-> events]
              /\ ret' = ChronologicalEvents(events, clock)
    /\ UNCHANGED <<aggVars, storage>>

SpecSort == Init /\ [][ChronologicalEventsCall]_vars

SortCall == call # NoCall /\ call.fn = "chronologicalEvents"

\* the starts of e's time ranges that are not before the clock
FutureStarts(e, clock) ==
    IF e.dti.present /\ e.dti.hasRanges
    THEN { e.dti.ranges[k].from.t : k \in { j \in 1..Len(e.dti.ranges) :
              e.dti.ranges[j].from.valid /\ e.dti.ranges[j].from.t >= clock } }
    ELSE {}

\* e's start is not after f's: both have future starts and e's earliest is
\* not later, or f has none
NotAfter(e, f, clock) ==
    \/ FutureStarts(f, clock) = {}
    \/ /\ FutureStarts(e, clock) # {}
       /\ \E t \in FutureStarts(e, clock) : \A u \in FutureStarts(f, clock) : t <= u

\* the position in the list given of the event at position j of the result
OriginalIndex(j) == CHOOSE i \in 1..Len(call.events) : call.events[i] = ret[j]

\* C22: the sorted list holds the events of the list given, ascending by
\* earliest future start, the events without one last, and events that
\* compare equal in the order they had
C22_ChronologicalOrder ==
    SortCall =>
        /\ Len(ret) = Len(call.events)
        /\ \A i \in 1..Len(call.events) : \E j \in 1..Len(ret) : ret[j] = call.events[i]
        /\ \A j, k \in 1..Len(ret) :
              j < k =>
                 /\ NotAfter(ret[j], ret[k], call.clock)
                 /\ NotAfter(ret[k], ret[j], call.clock) =>
                       OriginalIndex(j) < OriginalIndex(k)

\* three events were sorted: the first given has no future start, the
\* other two have the same one; the result moves the first to the end and
\* keeps the other two in their order
C22_Witness ==
    /\ SortCall
    /\ Len(call.events) = 3
    /\ FutureStarts(call.events[1], call.clock) = {}
    /\ call.events[1].dti.hasOpening
    /\ Cardinality(FutureStarts(call.events[2], call.clock)) = 2
    /\ call.events[3].dti.ranges # <<>>
    /\ call.events[3].dti.ranges[1].from = D(call.clock + 1)
    /\ ret = <<call.events[2], call.events[3], call.events[1]>>

\* an event whose later range is listed first sorts by the earlier one
C22_WitnessEarliest ==
    /\ SortCall
    /\ Len(call.events) = 2
    /\ call.events[1].dti.ranges # <<>>
    /\ call.events[1].dti.ranges[1].from = D(call.clock + 3600)
    /\ Cardinality(FutureStarts(call.events[2], call.clock)) = 2
    /\ ret = <<call.events[2], call.events[1]>>

(***************************************************************************)
(* filterEvents (977-991).  options is absent (the default {} is taken),   *)
(* null, or an object whose next2Weeks and foodOnly are undefined, null    *)
(* or a boolean.  The call returns a list or throws.                       *)
(***************************************************************************)

JsTrue == [t |-> "true", s |-> <<>>]

JsFalse == [t |-> "false", s |-> <<>>]

ToBoolean(x) == x = JsTrue \/ Truthy(x)

NoOptions == [t |-> "undefined", next2Weeks |-> Undefined, foodOnly |-> Undefined]

NullOptions == [t |-> "null", next2Weeks |-> Undefined, foodOnly |-> Undefined]

Options(next2Weeks, foodOnly) ==
    [t |-> "object", next2Weeks |-> next2Weeks, foodOnly |-> foodOnly]

\* filterEvents with the food filter on unless foodOnly is false
FilterEventsFoodDefault(events, options, clock) ==
    IF options.t = "null" THEN Thrown
    ELSE IF options.foodOnly # JsFalse
    THEN FilterEventsWithFood(IF options.next2Weeks # JsFalse
                              THEN FilterEventsNext2Weeks(events, clock) ELSE events)
    ELSE Returned(IF options.next2Weeks # JsFalse
                  THEN FilterEventsNext2Weeks(events, clock) ELSE events)

\* reading options.next2Weeks of null throws a TypeError
FilterEvents(events, options, clock) ==
    IF options.t = "null" THEN Thrown
    ELSE IF ToBoolean(options.foodOnly)
    THEN FilterEventsWithFood(IF options.next2Weeks # JsFalse
                              THEN FilterEventsNext2Weeks(events, clock) ELSE events)
    ELSE Returned(IF options.next2Weeks # JsFalse
                  THEN FilterEventsNext2Weeks(events, clock) ELSE events)

OptionSets ==
    {NoOptions, NullOptions}
    \cup {Options(n, f) : n \in {Undefined, Null, JsTrue, JsFalse},
                          f \in {Undefined, JsTrue, JsFalse}}

\* an event that starts an hour after the clock or a second before it, with
\* or without a keyword in its title, from ETH or VIS, or without content
BothFilterEvents(clock, n) ==
    { [e EXCEPT !.dti = SingleRange(D(clock + off), D(clock + off + 3600))] :
         off \in {-1, 3600},
         e \in { FoodEvent(Str(Dec(n)), "ETH", TRUE, Str(<<"A", "p", "é", "r", "o", " ", "R", "e", "c", "e", "p", "t", "i", "o", "n">>), Str(<<>>)),
                 FoodEvent(Str(Dec(n)), "ETH", TRUE, Str(<<"B", "o", "a", "r", "d", " ", "M", "e", "e", "t", "i", "n", "g">>), Str(<<>>)),
                 FoodEvent(Str(Dec(n)), "VIS", TRUE, Str(<<"B", "o", "a", "r", "d", " ", "M", "e", "e", "t", "i", "n", "g">>), Str(<<>>)),
                 FoodEvent(Str(Dec(n)), "ETH", FALSE, Undefined, Undefined) } }

\* filterEvents is called and returns or throws
FilterEventsCall ==
    /\ call = NoCall
    /\ \E clock \in Clocks, options \in OptionSets, len \in 0..MaxEvents :
          \E events \in [1..len -> UNION {BothFilterEvents(clock, n) : n \in 1..MaxEvents}] :
             /\ \A i \in 1..len : events[i].id = Str(Dec(i))
             /\ call' = [fn |-> "filterEvents", clock |-> clock,
                         options |-> options, events |-> events]
             /\ ret' = FilterEvents(events, options, clock)
    /\ UNCHANGED <<aggVars, storage>>

SpecBoth == Init /\ [][FilterEventsCall]_vars

BothCall == call # NoCall /\ call.fn = "filterEvents"

\* C23: filterEvents called without options gives
\* filterEventsWithFood(filterEventsNext2Weeks(events))
C23_BothByDefault ==
    (BothCall /\ call.options = NoOptions) =>
        ret = FilterEventsWithFood(FilterEventsNext2Weeks(call.events, call.clock))

\* the time filter is off
TimeOff == call.options.next2Weeks = JsFalse

\* the food filter is on
FoodOn == call.options.foodOnly = JsTrue

\* the time filter lets e through
PassesTime(e) == TimeOff \/ StartsInWindow(e, call.clock)

\* C23 amended: only the time filter is on by default.  Without options
\* the call returns exactly the events that start in the window, whatever
\* their text.  With an options object the time filter is off only for
\* next2Weeks false, and the food filter is on only for foodOnly true; the
\* call throws only for null options, or when the food filter meets an
\* event without content from a source outside the allow-list
C23_TimeByDefaultFoodOnRequest ==
    BothCall =>
        /\ call.options = NoOptions =>
              /\ ~ret.thrown
              /\ \A i \in 1..Len(call.events) :
                    FoodRetained(call.events[i]) <=>
                       StartsInWindow(call.events[i], call.clock)
        /\ ret.thrown <=>
              \/ call.options = NullOptions
              \/ /\ FoodOn
                 /\ \E i \in 1..Len(call.events) :
                       /\ PassesTime(call.events[i])
                       /\ ~call.events[i].hasContent
                       /\ call.events[i].source \notin {"VIS", "ESN", "VMP"}
        /\ ~ret.thrown =>
              /\ \A j \in 1..Len(ret.value) : \E i \in 1..Len(call.events) :
                    ret.value[j] = call.events[i]
              /\ \A j, k \in 1..Len(ret.value) :
                    j < k => ParseInt(ret.value[j].id.s).v < ParseInt(ret.value[k].id.s).v
              /\ \A i \in 1..Len(call.events) :
                    FoodRetained(call.events[i]) <=>
                       /\ PassesTime(call.events[i])
                       /\ FoodOn => \/ call.events[i].source \in {"VIS", "ESN", "VMP"}
                                    \/ MentionsFood(call.events[i])

\* a call without options returned an ETH event of the window whose text
\* mentions no food
C23_Witness ==
    /\ BothCall
    /\ call.options = NoOptions
    /\ \E i \in 1..Len(call.events) :
          /\ call.events[i].source = "ETH"
          /\ call.events[i].hasContent
          /\ ~MentionsFood(call.events[i])
          /\ FoodRetained(call.events[i])

\* the call of the dashboard, with both options true, dropped that event
C23_WitnessDashboard ==
    /\ BothCall
    /\ call.options = Options(JsTrue, JsTrue)
    /\ \E i \in 1..Len(call.events) :
          /\ call.events[i].source = "ETH"
          /\ call.events[i].hasContent
          /\ ~MentionsFood(call.events[i])
          /\ StartsInWindow(call.events[i], call.clock)
          /\ ~ret.thrown
          /\ ~FoodRetained(call.events[i])

(***************************************************************************)
(* Calls of the three scraping adapters on listing pages whose anchors     *)
(* repeat ids.  An anchor of the VIS page is a card and the id 1 or 2 in   *)
(* its href; an anchor of the ESN or VMP page is the id in its href, and   *)
(* kinds[i] is the answer to the i-th detail request of the run.           *)
(***************************************************************************)

\* the most anchors of a listing page with repeated ids
MaxAnchors == 3

\* a free card, a card without end time, a card priced CHF 15.00 and a
\* card priced CHF 0.50
DupCards ==
    { [complete |-> TRUE, price |-> NoCardPrice],
      [complete |-> FALSE, price |-> NoCardPrice],
      [complete |-> TRUE, price |-> [shown |-> TRUE, label |-> <<"C", "H", "F", " ">>, whole |-> 15, cents |-> 0]],
      [complete |-> TRUE, price |-> [shown |-> TRUE, label |-> <<"C", "H", "F", " ">>, whole |-> 0, cents |-> 50]] }

DupIds == {1, 2}

\* fetchVisEvents is called on a page whose anchors repeat ids
FetchVisEventsDupCall ==
    /\ call = NoCall
    /\ \E anchors \in SeqsUpTo([card : DupCards, id : DupIds], MaxAnchors) :
          /\ call' = [fn |-> "fetchVisEvents", anchors |-> anchors]
          /\ ret' = FetchVisEvents(Ok([n \in 1..Len(anchors) |->
                                         VisCardAnchor(anchors[n].card, anchors[n].id)])).value
    /\ UNCHANGED <<aggVars, storage>>

\* fetchEsnEvents is called on a listing whose anchors repeat ids; requests
\* are the detail requests the loop issues, one for each id collected (406-410)
FetchEsnEventsDupCall ==
    /\ call = NoCall
    /\ \E anchors \in SeqsUpTo(DupIds, MaxAnchors) :
          \E kinds \in [1..Len(anchors) -> {"free", "paid", "reject"}] :
             LET listing == Ok([n \in 1..Len(anchors) |->
                                  [href |-> EsnWords.EventSlash \o EsnItemId(anchors[n]),
                                   text |-> <<>>]])
             IN  /\ call' = [fn |-> "fetchEsnEvents", kinds |-> kinds,
                             anchors |-> [n \in 1..Len(anchors) |-> EsnItemId(anchors[n])],
                             requests |-> EsnListingBody(listing).value]
                 /\ ret' = FetchEsnEventsRun(listing,
                              [n \in 1..Len(anchors) |-> EsnAnswer(kinds[n])]).value
    /\ UNCHANGED <<aggVars, storage>>

\* fetchVmpEvents is called on a listing whose anchors repeat slugs
FetchVmpEventsDupCall ==
    /\ call = NoCall
    /\ \E anchors \in SeqsUpTo(DupIds, MaxAnchors) :
          \E kinds \in [1..Len(anchors) -> {"good", "nodate", "status"}] :
             LET listing == Ok([n \in 1..Len(anchors) |->
                                  [href |-> VmpWords.EnEvents \o VmpItemId(anchors[n]) \o <<"/">>,
                                   text |-> <<>>]])
             IN  /\ call' = [fn |-> "fetchVmpEvents", kinds |-> kinds,
                             anchors |-> [n \in 1..Len(anchors) |-> VmpItemId(anchors[n])],
                             requests |-> VmpListingBody(listing).value]
                 /\ ret' = FetchVmpEventsRun(listing,
                              [n \in 1..Len(anchors) |-> VmpAnswer(kinds[n])]).value
    /\ UNCHANGED <<aggVars, storage>>

NextDup == FetchVisEventsDupCall \/ FetchEsnEventsDupCall \/ FetchVmpEventsDupCall

SpecDup == Init /\ [][NextDup]_vars

VisDupCall == call # NoCall /\ call.fn = "fetchVisEvents"

DetailDupCall == call # NoCall /\ call.fn \in {"fetchEsnEvents", "fetchVmpEvents"}

\* the ids of the events in the list are pairwise distinct
DistinctIds(events) ==
    \A j, k \in 1..Len(events) : j # k => events[j].id # events[k].id

\* C24: the events fetchVisEvents returns have pairwise distinct ids; in
\* fetchEsnEvents and fetchVmpEvents every id on the listing is requested
\* exactly once, whatever the number of anchors that name it, and the events
\* returned have pairwise distinct ids, each of them a requested id
C24_DedupById ==
    /\ VisDupCall =>
          /\ DistinctIds(ret)
          /\ \A j \in 1..Len(ret) : \E n \in 1..Len(call.anchors) :
                ret[j].id = Str(Dec(call.anchors[n].id))
    /\ DetailDupCall =>
          /\ \A j, k \in 1..Len(call.requests) :
                j # k => call.requests[j] # call.requests[k]
          /\ \A n \in 1..Len(call.anchors) : \E j \in 1..Len(call.requests) :
                call.requests[j] = call.anchors[n]
          /\ \A j \in 1..Len(call.requests) : \E n \in 1..Len(call.anchors) :
                call.requests[j] = call.anchors[n]
          /\ DistinctIds(ret)
          /\ \A j \in 1..Len(ret) : \E k \in 1..Len(call.requests) :
                ret[j].id = Str(call.requests[k])

\* an ESN listing names the id 1 twice and then the id 2: two requests were
\* issued and two events returned
C24_Witness ==
    /\ DetailDupCall
    /\ call.fn = "fetchEsnEvents"
    /\ call.anchors = <<EsnItemId(1), EsnItemId(1), EsnItemId(2)>>
    /\ call.requests = <<EsnItemId(1), EsnItemId(2)>>
    /\ Len(ret) = 2

\* a VIS page with two free cards of id 1 gave one event
C24_WitnessVis ==
    /\ VisDupCall
    /\ Len(call.anchors) = 2
    /\ call.anchors[1] = call.anchors[2]
    /\ call.anchors[1].card = [complete |-> TRUE, price |-> NoCardPrice]
    /\ Len(ret) = 1

\* a VMP listing names the same slug three times: one request, one event
C24_WitnessVmp ==
    /\ DetailDupCall
    /\ call.fn = "fetchVmpEvents"
    /\ Len(call.anchors) = 3
    /\ Len(call.requests) = 1
    /\ Len(ret) = 1

(***************************************************************************)
(* The event cards (EventCard.vue).  A card is made for an event, reads    *)
(* isUserRegistered(this.event.id) when mounted (151-154) and sets its     *)
(* isRegistered to toggleUserRegistration(this.event.id) when its button   *)
(* is pressed (227-229).  call holds the cards, ret the last operation     *)
(* with the status isUserRegistered reports for every event before and     *)
(* after it.                                                               *)
(***************************************************************************)

\* two events with the id 1 from different sources, and two with other ids
CardEvents ==
    { [id |-> <<"1">>, source |-> "VIS"], [id |-> <<"1">>, source |-> "ESN"],
      [id |-> <<"2">>, source |-> "ESN"], [id |-> <<"e", "1">>, source |-> "VMP"] }

\* data(): isRegistered is false until the card is mounted
Cards ==
    IF call = NoCall
    THEN [fn |-> "cards", mounted |-> {}, isRegistered |-> [e \in CardEvents |-> FALSE]]
    ELSE call

\* what isUserRegistered reports for each event while the item is item
StatusOf(item) == [e \in CardEvents |-> IsUserRegistered(item, e.id)]

CardMounted ==
    \E e \in CardEvents \ Cards.mounted :
       /\ call' = [Cards EXCEPT !.mounted = @ \cup {e},
                                !.isRegistered[e] = IsUserRegistered(storage, e.id)]
       /\ ret' = [fn |-> "mounted", event |-> e,
                  before |-> StatusOf(storage), after |-> StatusOf(storage)]
       /\ UNCHANGED <<aggVars, storage>>

CardToggleRegistration ==
    \E e \in Cards.mounted :
       LET t == ToggleUserRegistration(storage, e.id)
       IN  /\ call' = [Cards EXCEPT !.isRegistered[e] = t.value]
           /\ storage' = t.item
           /\ ret' = [fn |-> "toggleRegistration", event |-> e,
                      before |-> StatusOf(storage), after |-> StatusOf(t.item)]
           /\ UNCHANGED aggVars

NextCard == CardMounted \/ CardToggleRegistration

SpecCard == Init /\ [][NextCard]_vars

\* C25: pressing the button on the card of an event leaves the status
\* reported for an event with the same id from another source as it was
C25_ScopedPerSource ==
    ret.fn = "toggleRegistration" =>
        \A f \in CardEvents :
            (f.id = ret.event.id /\ f.source # ret.event.source) =>
                ret.after[f] = ret.before[f]

\* the status is kept by id alone: the toggle changes the status of every
\* event with the id of the card, and of no event with another id
C25_ScopedPerId ==
    ret.fn = "toggleRegistration" =>
        \A f \in CardEvents :
            IF f.id = ret.event.id THEN ret.after[f] = ~ret.before[f]
            ELSE ret.after[f] = ret.before[f]

\* the button on the ESN card of id 1 was pressed and the VIS event of id 1
\* is reported registered, while its mounted card still shows it is not
C25_Witness ==
    /\ ret.fn = "toggleRegistration"
    /\ ret.event = [id |-> <<"1">>, source |-> "ESN"]
    /\ ~ret.before[[id |-> <<"1">>, source |-> "VIS"]]
    /\ ret.after[[id |-> <<"1">>, source |-> "VIS"]]
    /\ [id |-> <<"1">>, source |-> "VIS"] \in call.mounted
    /\ ~call.isRegistered[[id |-> <<"1">>, source |-> "VIS"]]

(***************************************************************************)
(* The keyword the card highlights.                                        *)
(***************************************************************************)

\* the languages of the lexicon in the order of its declaration
Languages == <<"french", "german", "english", "common">>

\* the k-th keyword of the l-th language occurs in the title, a blank and
\* the description of e, letters compared without case
KeywordOccurs(e, l, k) ==
    LET text == TextOf(e.title) \o <<" ">> \o TextOf(e.description)
    IN  \E p \in 1..Len(text) : OccursAt(text, p, FOOD_KEYWORDS[Languages[l]][k])

\* the places of the lexicon
Places == {pl \in (1..4) \X (1..21) : pl[2] <= Len(FOOD_KEYWORDS[Languages[pl[1]]])}

\* C26: getFoodKeyword returns the keyword of the first place of the
\* lexicon, french before german before english before common, whose
\* keyword occurs in the text, wherever in the text the keywords stand; it
\* returns null exactly when eventHasFood returns false
C26_FirstInEnumeration ==
    (call.fn = "eventHasFood" /\ ~ret.foodKeyword.thrown) =>
        LET e == call.event
            hits == {pl \in Places : KeywordOccurs(e, pl[1], pl[2])}
        IN  /\ ~ret.hasFood.thrown
            /\ ret.foodKeyword.value = Null <=> ret.hasFood.value = FALSE
            /\ ret.foodKeyword.value = Null <=> hits = {}
            /\ \A pl \in hits :
                  (\A g \in hits : pl[1] < g[1] \/ (pl[1] = g[1] /\ pl[2] <= g[2]))
                     => ret.foodKeyword.value = Str(FOOD_KEYWORDS[Languages[pl[1]]][pl[2]])

\* "Lunch, then Kaffee": the german keyword is returned although the
\* english one stands first in the text
C26_Witness ==
    /\ call.fn = "eventHasFood"
    /\ call.event.title = Str(<<"L", "u", "n", "c", "h", ",", " ", "t", "h", "e", "n", " ", "K", "a", "f", "f", "e", "e">>)
    /\ ret.hasFood = Returned(TRUE)
    /\ ret.foodKeyword = Returned(Str(<<"k", "a", "f", "f", "e", "e">>))

\* "COFFEE BREAK": 'coffee' stands before 'coffee break' in the lexicon
C26_WitnessPrefix ==
    /\ call.fn = "eventHasFood"
    /\ call.event.title = Str(<<"C", "O", "F", "F", "E", "E", " ", "B", "R", "E", "A", "K">>)
    /\ ret.foodKeyword = Returned(Str(<<"c", "o", "f", "f", "e", "e">>))

\* a text without keyword: null, and eventHasFood false
C26_WitnessNull ==
    /\ call.fn = "eventHasFood"
    /\ call.event.title = Str(<<"B", "o", "a", "r", "d", " ", "M", "e", "e", "t", "i", "n", "g">>)
    /\ call.event.description = Str(<<>>)
    /\ ret.hasFood = Returned(FALSE)
    /\ ret.foodKeyword = Returned(Null)

(***************************************************************************)
(* The stored list over a run of calls.                                    *)
(***************************************************************************)

\* the item before the first call of the run
InitialItem == IF RegLog = <<>> THEN storage ELSE RegLog[1].before

\* the run started with no item, an empty item or an empty list
StartedEmpty == InitialItem \in {NoItem, SetItem(<<>>), SetItem(<<"[", "]">>)}

\* the list the item holds
StoredList(item) == JsonParse(ItemOrEmptyArray(item)).value.items

\* eventId is in the list the item holds
Stored(item, eventId) ==
    \E i \in 1..Len(StoredList(item)) : StoredList(item)[i] = Str(eventId)

\* the calls toggleUserRegistration(eventId) of the run so far
Toggles(eventId) ==
    {k \in 1..Len(RegLog) : IsCall(k, "toggleUserRegistration", eventId)}

\* C27: in a run that started from a missing or empty list the item always
\* holds a list of ids without duplicates; an id is in the list, and
\* reported registered, exactly when it was toggled an odd number of
\* times; a toggle returns the new status of its id and leaves the status
\* of every other id as it was
C27_StoreInvariant ==
    StartedEmpty =>
        /\ ~JsonParse(ItemOrEmptyArray(storage)).thrown
        /\ JsonParse(ItemOrEmptyArray(storage)).value.t = "array"
        /\ \A i, j \in 1..Len(StoredList(storage)) :
              i # j => StoredList(storage)[i] # StoredList(storage)[j]
        /\ \A i \in 1..Len(StoredList(storage)) :
              \E id \in RegIds : StoredList(storage)[i] = Str(id)
        /\ \A id \in RegIds :
              /\ Stored(storage, id) <=> Cardinality(Toggles(id)) % 2 = 1
              /\ IsUserRegistered(storage, id) <=> Cardinality(Toggles(id)) % 2 = 1
        /\ \A k \in 1..Len(RegLog) :
              /\ RegLog[k].fn = "toggleUserRegistration" =>
                    /\ ret[k] = Stored(RegLog[k].after, RegLog[k].eventId)
                    /\ ret[k] = ~Stored(RegLog[k].before, RegLog[k].eventId)
                    /\ \A id \in RegIds \ {RegLog[k].eventId} :
                          Stored(RegLog[k].after, id) <=> Stored(RegLog[k].before, id)
              /\ RegLog[k].fn = "isUserRegistered" =>
                    ret[k] = Stored(RegLog[k].before, RegLog[k].eventId)

\* a run from no item: one id toggled on, the other toggled on and off
\* again, and the first toggled off; the list is empty again
C27_Witness ==
    /\ StartedEmpty
    /\ Len(RegLog) = 4
    /\ InitialItem = NoItem
    /\ \A k \in 1..4 : RegLog[k].fn = "toggleUserRegistration"
    /\ RegLog[1].eventId # RegLog[2].eventId
    /\ RegLog[3].eventId = RegLog[2].eventId
    /\ RegLog[4].eventId = RegLog[1].eventId
    /\ ret = <<TRUE, TRUE, FALSE, FALSE>>
    /\ storage = SetItem(<<"[", "]">>)

\* three toggles of one id and one of the other: both are registered
C27_WitnessOdd ==
    /\ StartedEmpty
    /\ Len(RegLog) = 4
    /\ \A k \in 1..4 : RegLog[k].fn = "toggleUserRegistration"
    /\ \E id \in RegIds : Cardinality(Toggles(id)) = 3
    /\ Len(StoredList(storage)) = 2

(***************************************************************************)
(* The dashboard (part_000): applyFilters (214-220) sets this.events to    *)
(* filterEvents(this.allEvents, {next2Weeks: true, foodOnly:               *)
(* this.showFoodOnly}), and chronologicalEvents (173-185) sorts that list. *)
(* An error of the filter leaves this.events as it was, empty.  The clock  *)
(* is one instant for the filter and the sort.                             *)
(***************************************************************************)

\* the time cases of the events shown: starts at the clock, at the horizon,
\* a second after it and a second before the clock, opening hours only, a
\* past and a future range, two future ranges, a past range with opening
\* hours, and no date information
DashCases ==
    {[k |-> "range", off |-> o] : o \in {-1, 0, 14 * 24 * 3600, 14 * 24 * 3600 + 1}}
    \cup {[k |-> c, off |-> 0] : c \in {"opening", "two", "unsorted", "bothPast", "nodti"}}

\* the events: every time case with a title that names food, two of them
\* also with one that does not, and an event without content
DashKinds ==
    {[time |-> c, title |-> "food"] : c \in DashCases}
    \cup {[time |-> c, title |-> "plain"] :
            c \in {[k |-> "range", off |-> 0], [k |-> "opening", off |-> 0]}}
    \cup {[time |-> [k |-> "range", off |-> 0], title |-> "none"]}

DashEvent(kind, clock, n) ==
    [FoodEvent(Str(Dec(n)), "ETH", kind.title # "none",
               CASE kind.title = "food" -> Str(<<"A", "p", "é", "r", "o", " ", "R", "e", "c", "e", "p", "t", "i", "o", "n">>)
                 [] kind.title = "plain" -> Str(<<"B", "o", "a", "r", "d", " ", "M", "e", "e", "t", "i", "n", "g">>)
                 [] OTHER -> Undefined,
               IF kind.title = "none" THEN Undefined ELSE Str(<<>>))
       EXCEPT !.dti = SortEvent(kind.time, clock, n).dti]

\* the events are loaded and filtered, and the list is sorted for display
ApplyFilters ==
    /\ call = NoCall
    /\ \E clock \in Clocks, showFoodOnly \in BOOLEAN,
          kinds \in SeqsUpTo(DashKinds, MaxEvents) :
          LET allEvents == [i \in 1..Len(kinds) |-> DashEvent(kinds[i], clock, i)]
              filtered == FilterEvents(allEvents,
                                       Options(JsTrue, IF showFoodOnly THEN JsTrue ELSE JsFalse),
                                       clock)
              events == IF filtered.thrown THEN <<>> ELSE filtered.value
              sorted == ChronologicalEvents(events, clock)
          IN  /\ call' = [fn |-> "applyFilters", clock |-> clock,
                          showFoodOnly |-> showFoodOnly, allEvents |-> allEvents]
              /\ ret' = [error |-> filtered.thrown, events |-> events,
                         chronologicalEvents |-> sorted,
                         next |-> [j \in 1..Len(sorted) |-> GetNextEventDate(sorted[j], clock)]]
    /\ UNCHANGED <<aggVars, storage>>

SpecDash == Init /\ [][ApplyFilters]_vars

DashCall == call # NoCall /\ call.fn = "applyFilters"

\* C28: of the events displayed, each one retained for a range start in
\* [T, T + 14 days] has a next date, which is in [T, T + 14 days]; each one
\* retained for its opening hours alone has none, and stands after every
\* event that has one; no event is retained for any other reason
C28_FilterAndOrderAgree ==
    DashCall =>
        \A j \in 1..Len(ret.chronologicalEvents) :
            LET e == ret.chronologicalEvents[j]
            IN  /\ StartsInWindow(e, call.clock) =>
                      /\ ~ret.next[j].null
                      /\ call.clock <= ret.next[j].t
                      /\ ret.next[j].t <= call.clock + 14 * 24 * 60 * 60
                /\ ~StartsInWindow(e, call.clock) =>
                      /\ ~e.dti.hasRanges
                      /\ OpeningOverlaps(e, call.clock)
                      /\ ret.next[j].null
                      /\ \A k \in 1..Len(ret.chronologicalEvents) :
                            ~ret.next[k].null => k < j

\* an event with opening hours and an event that starts at the horizon were
\* given in this order and are displayed in the opposite one
C28_Witness ==
    /\ DashCall
    /\ Len(call.allEvents) = 2
    /\ call.allEvents[1].dti.hasOpening
    /\ ~call.allEvents[1].dti.hasRanges
    /\ ret.chronologicalEvents = <<call.allEvents[2], call.allEvents[1]>>
    /\ ret.next = <<NextDate(call.clock + 14 * 24 * 60 * 60), NoNextDate>>

\* an event with a past and a future range is displayed with the future one
C28_WitnessTwo ==
    /\ DashCall
    /\ Len(ret.chronologicalEvents) = 1
    /\ Len(ret.chronologicalEvents[1].dti.ranges) = 2
    /\ ret.chronologicalEvents[1].dti.ranges[1].from.t < call.clock
    /\ ret.next = <<NextDate(call.clock + 3600)>>

(***************************************************************************)
(* The first anchor of an id on the VIS page.                              *)
(***************************************************************************)

\* some anchor of the page carries the id
OnPage(id) == \E n \in 1..Len(call.anchors) : call.anchors[n].id = id

\* the card of the first anchor that carries the id
FirstCard(id) ==
    call.anchors[CHOOSE n \in 1..Len(call.anchors) :
                    /\ call.anchors[n].id = id
                    /\ \A m \in 1..(n - 1) : call.anchors[m].id # id].card

\* an event with the id is in the list returned
IdEmitted(id) == \E j \in 1..Len(ret) : ret[j].id = Str(Dec(id))

\* the card names a price above zero
Paid(card) == card.price.shown /\ (card.price.whole > 0 \/ card.price.cents > 0)

\* C29: when the first anchor of an id lacks a timestamp or is paid, no
\* event with that id is emitted, whatever the later anchors of the id carry
C29_FirstAnchorDecides ==
    VisDupCall =>
        \A id \in DupIds :
            (OnPage(id) /\ (~FirstCard(id).complete \/ Paid(FirstCard(id))))
                => ~IdEmitted(id)

\* the first anchor alone decides, by the adapter's reading of the price
\* (the first run of digits of the price line): an event with the id is
\* emitted exactly when the first card is complete and names no whole franc
C29_SeenBeforeValidated ==
    VisDupCall =>
        \A id \in DupIds :
            OnPage(id) =>
                (IdEmitted(id) <=>
                    /\ FirstCard(id).complete
                    /\ ~(FirstCard(id).price.shown /\ FirstCard(id).price.whole > 0))

\* the first anchor of id 1 is a card priced CHF 0.50 and an event with the
\* id 1 was emitted
C29_Witness ==
    /\ VisDupCall
    /\ OnPage(1)
    /\ FirstCard(1).price.shown
    /\ FirstCard(1).price.cents = 50
    /\ IdEmitted(1)

\* the first anchor of id 1 has no end time, the second is a complete free
\* card of id 1, and no event was emitted
C29_WitnessSkipped ==
    /\ VisDupCall
    /\ Len(call.anchors) = 2
    /\ call.anchors[1] = [card |-> [complete |-> FALSE, price |-> NoCardPrice], id |-> 1]
    /\ call.anchors[2] = [card |-> [complete |-> TRUE, price |-> NoCardPrice], id |-> 1]
    /\ ret = <<>>

(***************************************************************************)
(* The fee row of the ESN detail page.                                     *)
(***************************************************************************)

\* the page that answers the n-th request has a row of two cells whose
\* label names Entrance or Fee
HasFeeRow(n) ==
    /\ call.kinds[n] \notin FailedKinds
    /\ \E r \in 1..Len(EsnAnswer(call.kinds[n]).data.rows) :
          LET row == EsnAnswer(call.kinds[n]).data.rows[r]
          IN  /\ Len(row) >= 2
              /\ \/ Includes(row[1], <<"E", "n", "t", "r", "a", "n", "c", "e">>)
                 \/ Includes(row[1], <<"F", "e", "e">>)

=============================================================================
